---- MODULE Spec2Model ----
(***************************************************************************)
(* Quiz deduplication and sync: the shared store (FileStorage, with the    *)
(* DbStorage sync as an interleaved variant), the HTTP routes in front of  *)
(* it, and the client's sync request.                                      *)
(*                                                                         *)
(* Conventions.  A JavaScript string is a sequence of one-character        *)
(* strings.  A uniqueId is a natural number, 0 standing for a missing or   *)
(* empty one (both are falsy in `!quiz.uniqueId`).  A version of 0 stands  *)
(* for a missing one (falsy in every test the code makes on it).  A        *)
(* createdAt is a time from 1 on, 0 standing for one a request leaves out. *)
(* isPublic is "true", "false" or "undefined" (the field left out of a     *)
(* POST body).                                                             *)
(***************************************************************************)
EXTENDS Integers, Sequences, FiniteSets, TLC

----------------------------------------------------------------------------
(* Bounds *)

MaxTime == 1
MaxVersion == 2
MaxUuid == 1
MaxLocal == 2
MaxClientUuid == 4
MaxDbRecords == 2
MaxDbVersion == 3
NumRequests == 2
MaxCalls == 3
MaxQuizId == 2
MaxSyncQuizId == 3
MaxSyncVersion == 3
MaxClientTime == 2
MaxDedupLen == 3
MaxHashQuestions == 2
MaxFuzzyQuestions == 3
MaxRetryLen == 2
MaxFetchLen == 2
MaxFetches == 2
MaxBatchLen == 2
NumClientIds == 2

----------------------------------------------------------------------------
(* Strings *)

CodeUnit(c) ==
  CASE c = " " -> 32
    [] c = "A" -> 65
    [] c = "B" -> 66
    [] c = "a" -> 97
    [] c = "b" -> 98
    [] c = "|" -> 124
    [] OTHER -> 0

toLowerCase(s) ==
  [i \in 1..Len(s) |->
     IF s[i] = "A" THEN "a" ELSE IF s[i] = "B" THEN "b" ELSE s[i]]

RECURSIVE trimStart(_)
trimStart(s) ==
  IF s # <<>> /\ Head(s) = " " THEN trimStart(Tail(s)) ELSE s

RECURSIVE trimEnd(_)
trimEnd(s) ==
  IF s # <<>> /\ s[Len(s)] = " " THEN trimEnd(SubSeq(s, 1, Len(s) - 1)) ELSE s

trim(s) == trimEnd(trimStart(s))

\* s.toLowerCase().trim()
Normalize(s) == trim(toLowerCase(s))

\* the order of Array.prototype.sort() without a comparator and, on the
\* lower-case strings it is applied to here, of localeCompare: -1, 0 or 1
RECURSIVE compareStrings(_, _)
compareStrings(s, t) ==
  IF s = <<>> THEN (IF t = <<>> THEN 0 ELSE -1)
  ELSE IF t = <<>> THEN 1
  ELSE IF CodeUnit(Head(s)) < CodeUnit(Head(t)) THEN -1
  ELSE IF CodeUnit(Head(s)) > CodeUnit(Head(t)) THEN 1
  ELSE compareStrings(Tail(s), Tail(t))

\* one step of a stable sort: x goes after every element that is not greater
InsertString(sorted, x) ==
  LET n == Cardinality({i \in 1..Len(sorted) : compareStrings(sorted[i], x) <= 0})
  IN SubSeq(sorted, 1, n) \o <<x>> \o SubSeq(sorted, n + 1, Len(sorted))

RECURSIVE sortStrings(_)
sortStrings(ss) ==
  IF ss = <<>> THEN <<>>
  ELSE InsertString(sortStrings(SubSeq(ss, 1, Len(ss) - 1)), ss[Len(ss)])

\* Array.prototype.join('|')
RECURSIVE join(_)
join(ss) ==
  IF ss = <<>> THEN <<>>
  ELSE IF Len(ss) = 1 THEN ss[1]
  ELSE ss[1] \o <<"|">> \o join(Tail(ss))

----------------------------------------------------------------------------
(* createContentHash *)

\* the element of questionsData built from one question
QuestionData(q) ==
  [question |-> Normalize(q.question),
   options |-> join(sortStrings([i \in 1..Len(q.options) |-> Normalize(q.options[i])])),
   correctAnswer |-> Normalize(q.correctAnswer)]

\* questionsData.sort((a, b) => a.question.localeCompare(b.question)): stable,
\* keyed on the question text alone
InsertQuestionData(sorted, x) ==
  LET n == Cardinality({i \in 1..Len(sorted) :
                          compareStrings(sorted[i].question, x.question) <= 0})
  IN SubSeq(sorted, 1, n) \o <<x>> \o SubSeq(sorted, n + 1, Len(sorted))

RECURSIVE sortQuestionsData(_)
sortQuestionsData(qs) ==
  IF qs = <<>> THEN <<>>
  ELSE InsertQuestionData(sortQuestionsData(SubSeq(qs, 1, Len(qs) - 1)), qs[Len(qs)])

\* `${titleNormalized}:${questionsData.length}:${JSON.stringify(questionsData)}`
\* as the triple of its three parts
createContentHash(quiz) ==
  LET questionsData == [i \in 1..Len(quiz.questions) |-> QuestionData(quiz.questions[i])]
      sorted == sortQuestionsData(questionsData)
  IN <<Normalize(quiz.title), Len(sorted), sorted>>

\* the client's createQuizContentHash: the same three parts, built the same way
createQuizContentHash(quiz) ==
  LET questionsSimplified ==
        [i \in 1..Len(quiz.questions) |-> QuestionData(quiz.questions[i])]
      sorted == sortQuestionsData(questionsSimplified)
  IN <<Normalize(quiz.title), Len(sorted), sorted>>

----------------------------------------------------------------------------
(* The Precedence Rule as the code writes it *)

\* keepNew of passes 1 and 2 (and of every pass of MemStorage and DbStorage)
keepNew(quiz, existingQuiz) ==
  \/ (quiz.version # 0 /\ existingQuiz.version # 0
        /\ quiz.version > existingQuiz.version)
  \/ (quiz.createdAt # 0 /\ existingQuiz.createdAt # 0
        /\ quiz.createdAt > existingQuiz.createdAt)

\* keepQuiz1 of FileStorage's pass 3: a missing version counts as 0
keepQuiz1(quiz1, quiz2) ==
  \/ quiz1.version > quiz2.version
  \/ (quiz1.createdAt # 0 /\ quiz2.createdAt # 0
        /\ quiz1.createdAt > quiz2.createdAt)

\* keepQuiz1 of MemStorage's pass 3: both versions have to be present
memKeepQuiz1(quiz1, quiz2) ==
  \/ (quiz1.version # 0 /\ quiz2.version # 0 /\ quiz1.version > quiz2.version)
  \/ (quiz1.createdAt # 0 /\ quiz2.createdAt # 0
        /\ quiz1.createdAt > quiz2.createdAt)

----------------------------------------------------------------------------
(* FileStorage.removeDuplicateQuizzes *)

Min(a, b) == IF a < b THEN a ELSE b
Abs(a) == IF a < 0 THEN -a ELSE a

\* Map.delete(id) on the collection, kept in insertion order
DeleteId(coll, id) == SelectSeq(coll, LAMBDA q : q.id # id)
HasId(coll, id) == \E i \in 1..Len(coll) : coll[i].id = id

\* first pass: by content hash, over every quiz
Pass1Step(st, quiz) ==
  LET contentHash == createContentHash(quiz) IN
  IF contentHash \notin DOMAIN st.contentHashMap
  THEN [st EXCEPT !.contentHashMap = (contentHash :> quiz) @@ @,
                  !.quizzesToKeep = @ \cup {quiz.id}]
  ELSE LET existingQuiz == st.contentHashMap[contentHash] IN
       IF quiz.id = existingQuiz.id THEN st
       ELSE IF keepNew(quiz, existingQuiz)
       THEN [st EXCEPT !.quizzesToKeep = (@ \ {existingQuiz.id}) \cup {quiz.id},
                       !.contentHashMap = (contentHash :> quiz) @@ @,
                       !.duplicatesToRemove = Append(@, existingQuiz)]
       ELSE [st EXCEPT !.duplicatesToRemove = Append(@, quiz)]

\* a second pass that looks at no quiz
Pass2Step_skip(st, quiz) == st

\* second pass: by uniqueId, over the quizzes still kept that have one
Pass2Step(st, quiz) ==
  IF quiz.id \notin st.quizzesToKeep \/ quiz.uniqueId = 0 THEN st
  ELSE IF quiz.uniqueId \notin DOMAIN st.uniqueIdMap
  THEN [st EXCEPT !.uniqueIdMap = (quiz.uniqueId :> quiz) @@ @]
  ELSE LET existingQuiz == st.uniqueIdMap[quiz.uniqueId] IN
       IF quiz.id = existingQuiz.id THEN st
       ELSE IF keepNew(quiz, existingQuiz)
       THEN [st EXCEPT !.quizzesToKeep = @ \ {existingQuiz.id},
                       !.uniqueIdMap = (quiz.uniqueId :> quiz) @@ @,
                       !.duplicatesToRemove = Append(@, existingQuiz)]
       ELSE [st EXCEPT !.quizzesToKeep = @ \ {quiz.id},
                       !.duplicatesToRemove = Append(@, quiz)]

RECURSIVE Pass1(_, _)
Pass1(st, quizzes) ==
  IF quizzes = <<>> THEN st ELSE Pass1(Pass1Step(st, Head(quizzes)), Tail(quizzes))

RECURSIVE Pass2(_, _)
Pass2(st, quizzes) ==
  IF quizzes = <<>> THEN st ELSE Pass2(Pass2Step(st, Head(quizzes)), Tail(quizzes))

\* a match that compares the texts and the correct answers as they are spelled
QuestionMatches_exact(q1, quiz2) ==
  \E k \in 1..Len(quiz2.questions) :
     \/ q1.question = quiz2.questions[k].question
     \/ q1.correctAnswer = quiz2.questions[k].correctAnswer

\* a question of quiz1 matches when some question of quiz2 has the same
\* normalized text or the same normalized correct answer
QuestionMatches(q1, quiz2) ==
  \E k \in 1..Len(quiz2.questions) :
     \/ Normalize(q1.question) = Normalize(quiz2.questions[k].question)
     \/ Normalize(q1.correctAnswer) = Normalize(quiz2.questions[k].correctAnswer)

matchCount(quiz1, quiz2) ==
  Cardinality({k \in 1..Len(quiz1.questions) : QuestionMatches(quiz1.questions[k], quiz2)})

\* a threshold of half the questions
ReachesThreshold_half(quiz1, quiz2) ==
  10 * matchCount(quiz1, quiz2) >= 5 * Min(Len(quiz1.questions), Len(quiz2.questions))

\* matchCount >= Math.min(len1, len2) * 0.8
ReachesThreshold(quiz1, quiz2) ==
  10 * matchCount(quiz1, quiz2) >= 8 * Min(Len(quiz1.questions), Len(quiz2.questions))

\* the j loop of the third pass for quiz1 = group[i]; ends early when quiz1 is removed
RECURSIVE Pass3Inner(_, _, _, _)
Pass3Inner(st, group, i, j) ==
  IF j > Len(group) THEN st
  ELSE LET quiz1 == group[i]
           quiz2 == group[j] IN
       IF quiz2.id \notin st.quizzesToKeep THEN Pass3Inner(st, group, i, j + 1)
       ELSE IF Abs(Len(quiz1.questions) - Len(quiz2.questions)) > 1
       THEN Pass3Inner(st, group, i, j + 1)
       ELSE IF ReachesThreshold(quiz1, quiz2)
       THEN IF keepQuiz1(quiz1, quiz2)
            THEN Pass3Inner([st EXCEPT !.quizzesToKeep = @ \ {quiz2.id},
                                       !.duplicatesToRemove = Append(@, quiz2)],
                            group, i, j + 1)
            ELSE [st EXCEPT !.quizzesToKeep = @ \ {quiz1.id},
                            !.duplicatesToRemove = Append(@, quiz1)]
       ELSE Pass3Inner(st, group, i, j + 1)

\* an i loop that stops after the first quiz of the group
Pass3Outer_firstOnly(st, group, i) ==
  IF i # 1 \/ group[1].id \notin st.quizzesToKeep THEN st
  ELSE Pass3Inner(st, group, 1, 2)

\* the i loop of the third pass over one title group
RECURSIVE Pass3Outer(_, _, _)
Pass3Outer(st, group, i) ==
  IF i > Len(group) THEN st
  ELSE IF group[i].id \notin st.quizzesToKeep THEN Pass3Outer(st, group, i + 1)
  ELSE Pass3Outer(Pass3Inner(st, group, i, i + 1), group, i + 1)

\* titleMap: the kept quizzes grouped by normalized title, the groups in the
\* order their titles first occur
RECURSIVE TitleOrder(_, _)
TitleOrder(kept, seen) ==
  IF kept = <<>> THEN <<>>
  ELSE LET t == Normalize(Head(kept).title) IN
       IF t \in seen THEN TitleOrder(Tail(kept), seen)
       ELSE <<t>> \o TitleOrder(Tail(kept), seen \cup {t})

\* a loop that takes the kept quizzes as one group, whatever their titles
Pass3Groups_oneGroup(st, kept, titles) ==
  IF Len(kept) > 1 THEN Pass3Outer(st, kept, 1) ELSE st

RECURSIVE Pass3Groups(_, _, _)
Pass3Groups(st, kept, titles) ==
  IF titles = <<>> THEN st
  ELSE LET group == SelectSeq(kept, LAMBDA q : Normalize(q.title) = Head(titles)) IN
       Pass3Groups(IF Len(group) > 1 THEN Pass3Outer(st, group, 1) ELSE st,
                   kept, Tail(titles))

Pass3(st, allQuizzes) ==
  LET kept == SelectSeq(allQuizzes, LAMBDA q : q.id \in st.quizzesToKeep) IN
  Pass3Groups(st, kept, TitleOrder(kept, {}))

\* a deletion loop that leaves the count as it was
DeleteAll_uncounted(res, toRemove) ==
  [collection |-> SelectSeq(res.collection,
                            LAMBDA q : \A k \in 1..Len(toRemove) : toRemove[k].id # q.id),
   deleteCount |-> res.deleteCount]

\* the deletion loop: [collection, deleteCount]
RECURSIVE DeleteAll(_, _)
DeleteAll(res, toRemove) ==
  IF toRemove = <<>> THEN res
  ELSE DeleteAll(
         IF HasId(res.collection, Head(toRemove).id)
         THEN [collection |-> DeleteId(res.collection, Head(toRemove).id),
               deleteCount |-> res.deleteCount + 1]
         ELSE res,
         Tail(toRemove))

EmptyMap == [x \in {} |-> 0]

removeDuplicateQuizzes(coll) ==
  IF Len(coll) <= 1 THEN [collection |-> coll, deleteCount |-> 0]
  ELSE LET st0 == [contentHashMap |-> EmptyMap, uniqueIdMap |-> EmptyMap,
                   quizzesToKeep |-> {}, duplicatesToRemove |-> <<>>]
           st3 == Pass3(Pass2(Pass1(st0, coll), coll), coll)
       IN DeleteAll([collection |-> coll, deleteCount |-> 0], st3.duplicatesToRemove)

----------------------------------------------------------------------------
(* MemStorage.removeDuplicateQuizzes *)

\* first pass: by uniqueId; a quiz without one is kept
MemPass1Step(st, quiz) ==
  IF quiz.uniqueId = 0 THEN [st EXCEPT !.uniqueQuizIds = @ \cup {quiz.id}]
  ELSE IF quiz.uniqueId \notin DOMAIN st.uniqueIdMap
  THEN [st EXCEPT !.uniqueIdMap = (quiz.uniqueId :> quiz) @@ @,
                  !.uniqueQuizIds = @ \cup {quiz.id}]
  ELSE LET existingQuiz == st.uniqueIdMap[quiz.uniqueId] IN
       IF keepNew(quiz, existingQuiz)
       THEN [st EXCEPT !.uniqueQuizIds = (@ \ {existingQuiz.id}) \cup {quiz.id},
                       !.uniqueIdMap = (quiz.uniqueId :> quiz) @@ @,
                       !.duplicatesRemoved = Append(@, existingQuiz)]
       ELSE [st EXCEPT !.duplicatesRemoved = Append(@, quiz)]

\* second pass: by content hash, over the kept quizzes that have no uniqueId
MemPass2Step(st, quiz) ==
  IF quiz.id \notin st.uniqueQuizIds \/ quiz.uniqueId # 0 THEN st
  ELSE LET contentHash == createContentHash(quiz) IN
       IF contentHash \notin DOMAIN st.contentHashMap
       THEN [st EXCEPT !.contentHashMap = (contentHash :> quiz) @@ @]
       ELSE LET existingQuiz == st.contentHashMap[contentHash] IN
            IF keepNew(quiz, existingQuiz)
            THEN [st EXCEPT !.uniqueQuizIds = (@ \ {existingQuiz.id}) \cup {quiz.id},
                            !.contentHashMap = (contentHash :> quiz) @@ @,
                            !.duplicatesRemoved = Append(@, existingQuiz)]
            ELSE [st EXCEPT !.uniqueQuizIds = @ \ {quiz.id},
                            !.duplicatesRemoved = Append(@, quiz)]

RECURSIVE MemPass1(_, _)
MemPass1(st, allQuizzes) ==
  IF allQuizzes = <<>> THEN st
  ELSE MemPass1(MemPass1Step(st, Head(allQuizzes)), Tail(allQuizzes))

RECURSIVE MemPass2(_, _)
MemPass2(st, allQuizzes) ==
  IF allQuizzes = <<>> THEN st
  ELSE MemPass2(MemPass2Step(st, Head(allQuizzes)), Tail(allQuizzes))

\* the j loop of the third pass for quiz1 = group[i]: a pair with two different
\* uniqueIds is passed over; ends early when quiz1 is removed
RECURSIVE MemPass3Inner(_, _, _, _)
MemPass3Inner(st, group, i, j) ==
  IF j > Len(group) THEN st
  ELSE LET quiz1 == group[i]
           quiz2 == group[j] IN
       IF quiz2.id \notin st.finalUniqueQuizIds THEN MemPass3Inner(st, group, i, j + 1)
       ELSE IF quiz1.uniqueId # 0 /\ quiz2.uniqueId # 0 /\ quiz1.uniqueId # quiz2.uniqueId
       THEN MemPass3Inner(st, group, i, j + 1)
       ELSE IF Abs(Len(quiz1.questions) - Len(quiz2.questions)) <= 1
               /\ ReachesThreshold(quiz1, quiz2)
       THEN IF memKeepQuiz1(quiz1, quiz2)
            THEN MemPass3Inner([st EXCEPT !.finalUniqueQuizIds = @ \ {quiz2.id},
                                          !.duplicatesRemoved = Append(@, quiz2)],
                               group, i, j + 1)
            ELSE [st EXCEPT !.finalUniqueQuizIds = @ \ {quiz1.id},
                            !.duplicatesRemoved = Append(@, quiz1)]
       ELSE MemPass3Inner(st, group, i, j + 1)

RECURSIVE MemPass3Outer(_, _, _)
MemPass3Outer(st, group, i) ==
  IF i > Len(group) THEN st
  ELSE IF group[i].id \notin st.finalUniqueQuizIds THEN MemPass3Outer(st, group, i + 1)
  ELSE MemPass3Outer(MemPass3Inner(st, group, i, i + 1), group, i + 1)

\* a loop that takes the kept quizzes as one group, whatever their titles
MemPass3Groups_oneGroup(st, kept, titles) ==
  IF Len(kept) > 1 THEN MemPass3Outer(st, kept, 1) ELSE st

RECURSIVE MemPass3Groups(_, _, _)
MemPass3Groups(st, kept, titles) ==
  IF titles = <<>> THEN st
  ELSE LET group == SelectSeq(kept, LAMBDA q : Normalize(q.title) = Head(titles)) IN
       MemPass3Groups(IF Len(group) > 1 THEN MemPass3Outer(st, group, 1) ELSE st,
                      kept, Tail(titles))

\* finalUniqueQuizIds starts as a copy of uniqueQuizIds, which the title groups
\* are built from
MemPass3(st, allQuizzes) ==
  LET kept == SelectSeq(allQuizzes, LAMBDA q : q.id \in st.uniqueQuizIds) IN
  MemPass3Groups([st EXCEPT !.finalUniqueQuizIds = st.uniqueQuizIds],
                 kept, TitleOrder(kept, {}))

memRemoveDuplicateQuizzes(coll) ==
  LET st0 == [uniqueIdMap |-> EmptyMap, contentHashMap |-> EmptyMap,
              uniqueQuizIds |-> {}, finalUniqueQuizIds |-> {},
              duplicatesRemoved |-> <<>>]
      st3 == MemPass3(MemPass2(MemPass1(st0, coll), coll), coll)
  IN DeleteAll([collection |-> coll, deleteCount |-> 0], st3.duplicatesRemoved)

----------------------------------------------------------------------------
(* FileStorage: the storage state is [quizCollection, quizCurrentId, uuidCount], *)
(* quizCollection being the Map's values in insertion order                       *)

\* position of the first quiz with this uniqueId (Array.find), 0 when none
FindByUniqueId(coll, uniqueId) ==
  IF \E i \in 1..Len(coll) : coll[i].uniqueId = uniqueId
  THEN CHOOSE i \in 1..Len(coll) :
         /\ coll[i].uniqueId = uniqueId
         /\ \A j \in 1..(i - 1) : coll[j].uniqueId # uniqueId
  ELSE 0

FindById(coll, id) ==
  IF \E i \in 1..Len(coll) : coll[i].id = id
  THEN CHOOSE i \in 1..Len(coll) : coll[i].id = id
  ELSE 0

\* a read that returns every quiz
getPublicQuizzes_all(coll) == coll

getPublicQuizzes(coll) == SelectSeq(coll, LAMBDA q : q.isPublic = "true")

\* uuidv4(): a value no client supplies and no earlier call returned
uuidv4(st) == NumClientIds + st.uuidCount + 1

createQuiz(st, quiz, now) ==
  LET newQuiz ==
        [id |-> st.quizCurrentId,
         uniqueId |-> IF quiz.uniqueId = 0 THEN uuidv4(st) ELSE quiz.uniqueId,
         title |-> quiz.title,
         questions |-> quiz.questions,
         isPublic |-> quiz.isPublic,
         version |-> IF quiz.version # 0 THEN quiz.version ELSE 1,
         createdAt |-> IF quiz.createdAt # 0 THEN quiz.createdAt ELSE now]
  IN [quizCollection |-> Append(st.quizCollection, newQuiz),
      quizCurrentId |-> st.quizCurrentId + 1,
      uuidCount |-> IF quiz.uniqueId = 0 THEN st.uuidCount + 1 ELSE st.uuidCount]

\* a merge that leaves the version to the update: { ...existingQuiz, ...quizUpdate }
MergeUpdate_spreadOnly(existingQuiz, quizUpdate) ==
  [f \in DOMAIN existingQuiz |->
     IF f \in DOMAIN quizUpdate THEN quizUpdate[f] ELSE existingQuiz[f]]

\* { ...existingQuiz, ...quizUpdate, version: existingQuiz.version ? existingQuiz.version + 1 : 1 }
\* quizUpdate is a record of the fields the update carries
MergeUpdate(existingQuiz, quizUpdate) ==
  [f \in DOMAIN existingQuiz |->
     IF f = "version"
     THEN (IF existingQuiz.version # 0 THEN existingQuiz.version + 1 ELSE 1)
     ELSE IF f \in DOMAIN quizUpdate THEN quizUpdate[f] ELSE existingQuiz[f]]

updateQuiz(st, id, quizUpdate) ==
  LET i == FindById(st.quizCollection, id) IN
  IF i = 0 THEN st
  ELSE [st EXCEPT !.quizCollection[i] = MergeUpdate(@, quizUpdate)]

deleteQuiz(st, id) == [st EXCEPT !.quizCollection = DeleteId(@, id)]

\* a sweep that deletes only the quizzes with isPublic === false
deletePrivateQuizzes_strictFalse(st) ==
  [st EXCEPT !.quizCollection = SelectSeq(@, LAMBDA q : q.isPublic # "false")]

\* deletes every quiz with !quiz.isPublic
deletePrivateQuizzes(st) ==
  [st EXCEPT !.quizCollection = SelectSeq(@, LAMBDA q : q.isPublic = "true")]

\* the fields of a sync item that updateQuiz spreads over the stored quiz
\* (the schema drops the client's own id)
AsUpdate(quiz) ==
  [uniqueId |-> quiz.uniqueId, title |-> quiz.title, questions |-> quiz.questions,
   isPublic |-> quiz.isPublic, version |-> quiz.version, createdAt |-> quiz.createdAt]

\* the first loop of syncQuizzes, over publicQuizzesToSync
RECURSIVE UpsertLoop(_, _, _)
UpsertLoop(st, publicQuizzesToSync, now) ==
  IF publicQuizzesToSync = <<>> THEN st
  ELSE LET quizToSync == Head(publicQuizzesToSync)
           i == FindByUniqueId(st.quizCollection, quizToSync.uniqueId)
           next == IF quizToSync.uniqueId = 0 THEN st
                   ELSE IF i # 0
                   THEN updateQuiz(st, st.quizCollection[i].id, AsUpdate(quizToSync))
                   ELSE createQuiz(st, quizToSync, now)
       IN UpsertLoop(next, Tail(publicQuizzesToSync), now)

\* the second loop of syncQuizzes, over the whole batch
RECURSIVE PurgeLoop(_, _)
PurgeLoop(st, quizzesToSync) ==
  IF quizzesToSync = <<>> THEN st
  ELSE LET quizToSync == Head(quizzesToSync)
           i == FindByUniqueId(st.quizCollection, quizToSync.uniqueId)
           next == IF quizToSync.isPublic # "true" /\ quizToSync.uniqueId # 0 /\ i # 0
                   THEN deleteQuiz(st, st.quizCollection[i].id)
                   ELSE st
       IN PurgeLoop(next, Tail(quizzesToSync))

RemoveDuplicates(st) ==
  [st EXCEPT !.quizCollection = removeDuplicateQuizzes(@).collection]

\* FileStorage.syncQuizzes, stage by stage: the storage state after the upsert
\* loop, after the purge loop, after deletePrivateQuizzes, and the one it leaves
\* (it returns getPublicQuizzes of that)
SyncUpserted(st, quizzesToSync, now) ==
  UpsertLoop(st, SelectSeq(quizzesToSync, LAMBDA q : q.isPublic = "true"), now)

SyncPurged(st, quizzesToSync, now) ==
  PurgeLoop(SyncUpserted(st, quizzesToSync, now), quizzesToSync)

SyncSwept(st, quizzesToSync, now) ==
  deletePrivateQuizzes(SyncPurged(st, quizzesToSync, now))

syncQuizzes(st, quizzesToSync, now) ==
  RemoveDuplicates(SyncSwept(st, quizzesToSync, now))

----------------------------------------------------------------------------
(* State *)

VARIABLES
  quizCollection,    \* FileStorage.quizCollection, in insertion order
  quizCurrentId,     \* FileStorage.quizCurrentId
  uuidCount,         \* how many uniqueIds the server has generated
  last,              \* the last request handled: its route, its input, what it served
  quizzes,           \* the client's local collection (the quizzes state of Quiz.tsx)
  requestBody,       \* the quizzes of the last sync request the client sent
  clientUuidCount,   \* how many identifiers the client has generated
  dbQuizzes,         \* the rows of DbStorage's quizzes table, in insertion order
  dbNextId,          \* the next value of the table's serial id
  calls,             \* the DbStorage.syncQuizzes calls in progress, one per request
  dbLog,             \* per row id: the version it was inserted with and the number
                     \* of updateQuiz writes completed on it
  callCount,         \* how many sync requests have reached DbStorage
  initialCollection, \* the collection the two stores below were loaded with
  memQuizCollection, \* MemStorage.quizCollection, in insertion order
  memLast,           \* the last call on the MemStorage and the count it returned
  hashQuiz,          \* a quiz
  hashPermuted,      \* the same quiz, its questions and their options reordered
  hashes,            \* the content hashes computed for the two, per function
  fetchCount,        \* history of the client: how many
                     \* fetchPublicQuizzesFromServer calls have completed
  observed           \* history of the FileStorage: whether it is being recorded;
                     \* per uniqueId the greatest version held under it in any
                     \* state so far; the collection before the last request;
                     \* whether the last two requests were syncs of one batch

serverVars == <<quizCollection, quizCurrentId, uuidCount, last>>
clientVars == <<quizzes, requestBody, clientUuidCount>>
dbVars == <<dbQuizzes, dbNextId, calls, dbLog, callCount>>
memVars == <<initialCollection, memQuizCollection, memLast>>
hashVars == <<hashQuiz, hashPermuted, hashes>>
vars == <<quizCollection, quizCurrentId, uuidCount, last,
          quizzes, requestBody, clientUuidCount,
          dbQuizzes, dbNextId, calls, dbLog, callCount,
          initialCollection, memQuizCollection, memLast,
          hashQuiz, hashPermuted, hashes, fetchCount, observed>>

\* what a step of one component leaves alone
UniqueIds == 1..(NumClientIds + MaxUuid)

SameSyncAgain(before, after) ==
  /\ before.route = "POST /api/quizzes/sync"
  /\ after.route = "POST /api/quizzes/sync"
  /\ after.batch = before.batch

\* the history after a request that took the collection from coll to next and
\* the last request from req to nextReq
Observe(obs, coll, next, req, nextReq) ==
  IF ~obs.on THEN obs
  ELSE [on |-> TRUE,
        version |->
          [u \in UniqueIds |->
             LET held == {next[i].version : i \in {k \in 1..Len(next) : next[k].uniqueId = u}}
             IN IF \E v \in held : v > obs.version[u]
                THEN CHOOSE v \in held : \A w \in held : w <= v
                ELSE obs.version[u]],
        before |-> coll,
        resync |-> SameSyncAgain(req, nextReq)]

NotObserving ==
  [on |-> FALSE, version |-> [u \in UniqueIds |-> 0], before |-> <<>>, resync |-> FALSE]
Observing == [NotObserving EXCEPT !.on = TRUE]

ServerFrame ==
  /\ UNCHANGED <<clientVars, dbVars, memVars, hashVars, fetchCount>>
  /\ observed' = Observe(observed, quizCollection, quizCollection', last, last')
ClientFrame == UNCHANGED <<serverVars, dbVars, memVars, hashVars, fetchCount, observed>>
DbFrame == UNCHANGED <<serverVars, clientVars, memVars, hashVars, fetchCount, observed>>
MemFrame == UNCHANGED <<serverVars, clientVars, dbVars, hashVars, fetchCount, observed>>
HashFrame == UNCHANGED <<serverVars, clientVars, dbVars, memVars, fetchCount, observed>>

Storage == [quizCollection |-> quizCollection, quizCurrentId |-> quizCurrentId,
            uuidCount |-> uuidCount]

SetStorage(st) ==
  /\ quizCollection' = st.quizCollection
  /\ quizCurrentId' = st.quizCurrentId
  /\ uuidCount' = st.uuidCount

\* the model's caps on the store's size and on its counters
\* the specification of the sync calls alone runs to larger counters
QuizIdBound == IF observed.on THEN MaxSyncQuizId ELSE MaxQuizId
VersionBound == IF observed.on THEN MaxSyncVersion ELSE MaxVersion

WithinBounds(st) ==
  /\ st.quizCurrentId <= QuizIdBound + 1
  /\ st.uuidCount <= MaxUuid
  /\ \A i \in 1..Len(st.quizCollection) : st.quizCollection[i].version <= VersionBound

\* route: the route handled; batch: the body of a sync request; key: the id or
\* uniqueId in the path; served: the quizzes in the response; status: the HTTP
\* status; removedCount: what cleanup reports; privateDeleted: how many quizzes
\* the deletePrivateQuizzes of a sync deleted
NoRequest ==
  [route |-> "none", batch |-> <<>>, key |-> 0, served |-> <<>>, status |-> 0,
   removedCount |-> 0, privateDeleted |-> 0]

----------------------------------------------------------------------------
(* Inputs *)

Times == 1..MaxTime
ClientIds == 1..NumClientIds

Q1 == [question |-> <<"a">>, options |-> << <<"a">>, <<"b">> >>, correctAnswer |-> <<"a">>]
Q2 == [question |-> <<"b">>, options |-> << <<"a">>, <<"b">> >>, correctAnswer |-> <<"b">>]

\* two contents that share neither title nor questions
Contents ==
  { [title |-> <<"a">>, questions |-> <<Q1>>],
    [title |-> <<"b">>, questions |-> <<Q2>>] }

\* request bodies of POST /api/quizzes and items of a sync batch, as the schema
\* parses them: version and createdAt left out
InsertQuizzes(uniqueIds, visibilities) ==
  { [uniqueId |-> u, title |-> c.title, questions |-> c.questions, isPublic |-> p,
     version |-> 0, createdAt |-> 0] :
    u \in uniqueIds, c \in Contents, p \in visibilities }

\* the quiz stored under id
Stored(quiz, id) ==
  [id |-> id, uniqueId |-> quiz.uniqueId, title |-> quiz.title,
   questions |-> quiz.questions, isPublic |-> quiz.isPublic,
   version |-> quiz.version, createdAt |-> quiz.createdAt]

PostBodies == InsertQuizzes({0} \cup ClientIds, {"true", "false", "undefined"})
SyncItems == InsertQuizzes(ClientIds, {"true", "false"})
\* batches of one item, and of two items under one uniqueId
SyncBatches ==
  {<<a>> : a \in SyncItems}
    \cup {<<p[1], p[2]>> : p \in {p \in SyncItems \X SyncItems : p[1].uniqueId = p[2].uniqueId}}

\* bodies of PUT /api/quizzes/:id: any subset of the fields
PutBodies ==
  {[isPublic |-> p] : p \in {"true", "false"}} \cup {[uniqueId |-> u] : u \in ClientIds}

----------------------------------------------------------------------------
(* Routes *)

\* GET /api/quizzes
GetQuizzes ==
  /\ last' = [NoRequest EXCEPT !.route = "GET /api/quizzes",
                               !.served = getPublicQuizzes(quizCollection),
                               !.status = 200]
  /\ UNCHANGED <<quizCollection, quizCurrentId, uuidCount>>
  /\ ServerFrame

\* GET /api/quizzes/unique/:uniqueId
GetQuizByUniqueId(uniqueId) ==
  LET i == FindByUniqueId(quizCollection, uniqueId) IN
  /\ last' = [NoRequest EXCEPT !.route = "GET /api/quizzes/unique/:uniqueId",
                               !.key = uniqueId,
                               !.served = IF i = 0 THEN <<>> ELSE <<quizCollection[i]>>,
                               !.status = IF i = 0 THEN 404 ELSE 200]
  /\ UNCHANGED <<quizCollection, quizCurrentId, uuidCount>>
  /\ ServerFrame

\* GET /api/quizzes/:id
GetQuiz(id) ==
  LET i == FindById(quizCollection, id) IN
  /\ last' = [NoRequest EXCEPT !.route = "GET /api/quizzes/:id",
                               !.key = id,
                               !.served = IF i = 0 THEN <<>> ELSE <<quizCollection[i]>>,
                               !.status = IF i = 0 THEN 404 ELSE 200]
  /\ UNCHANGED <<quizCollection, quizCurrentId, uuidCount>>
  /\ ServerFrame

\* POST /api/quizzes
PostQuiz(quizData, now) ==
  LET st == createQuiz(Storage, quizData, now) IN
  /\ WithinBounds(st)
  /\ SetStorage(st)
  /\ last' = [NoRequest EXCEPT !.route = "POST /api/quizzes",
                               !.served = <<st.quizCollection[Len(st.quizCollection)]>>,
                               !.status = 201]
  /\ ServerFrame

\* PUT /api/quizzes/:id
PutQuiz(id, quizData) ==
  LET st == updateQuiz(Storage, id, quizData)
      i == FindById(quizCollection, id) IN
  /\ WithinBounds(st)
  /\ SetStorage(st)
  /\ last' = [NoRequest EXCEPT !.route = "PUT /api/quizzes/:id",
                               !.key = id,
                               !.served = IF i = 0 THEN <<>> ELSE <<st.quizCollection[i]>>,
                               !.status = IF i = 0 THEN 404 ELSE 200]
  /\ ServerFrame

\* DELETE /api/quizzes/unique/:uniqueId
DeleteQuizByUniqueId(uniqueId) ==
  LET i == FindByUniqueId(quizCollection, uniqueId) IN
  /\ SetStorage(IF i = 0 THEN Storage ELSE deleteQuiz(Storage, quizCollection[i].id))
  /\ last' = [NoRequest EXCEPT !.route = "DELETE /api/quizzes/unique/:uniqueId",
                               !.key = uniqueId,
                               !.status = IF i = 0 THEN 404 ELSE 200]
  /\ ServerFrame

\* DELETE /api/quizzes/:id
DeleteQuizById(id) ==
  /\ SetStorage(deleteQuiz(Storage, id))
  /\ last' = [NoRequest EXCEPT !.route = "DELETE /api/quizzes/:id",
                               !.key = id,
                               !.status = IF HasId(quizCollection, id) THEN 200 ELSE 404]
  /\ ServerFrame

\* POST /api/quizzes/cleanup
Cleanup ==
  LET res == removeDuplicateQuizzes(quizCollection) IN
  /\ quizCollection' = res.collection
  /\ UNCHANGED <<quizCurrentId, uuidCount>>
  /\ last' = [NoRequest EXCEPT !.route = "POST /api/quizzes/cleanup",
                               !.removedCount = res.deleteCount,
                               !.status = 200]
  /\ ServerFrame

\* the route's pre-processing: createdAt: quiz.createdAt ? new Date(quiz.createdAt) : new Date()
Preprocess(batch, now) ==
  [i \in 1..Len(batch) |->
     [batch[i] EXCEPT !.createdAt = IF @ # 0 THEN @ ELSE now]]

\* what the schema of a sync item requires of it: a title and questions
WellFormed(quiz) == "title" \in DOMAIN quiz /\ "questions" \in DOMAIN quiz

\* syncQuizSchema.parse(processedData): it throws a ZodError unless every item
\* passes
Parses(batch) == \A k \in 1..Len(batch) : WellFormed(batch[k])

\* POST /api/quizzes/sync; a ZodError is answered with 400 before the storage
\* is called
SyncRoute(batch, now) ==
  LET processed == Preprocess(batch, now)
      st == IF Parses(processed) THEN syncQuizzes(Storage, processed, now) ELSE Storage IN
  /\ WithinBounds(st)
  /\ SetStorage(st)
  /\ last' = IF Parses(processed)
             THEN [NoRequest EXCEPT
                     !.route = "POST /api/quizzes/sync",
                     !.batch = batch,
                     !.privateDeleted =
                        Len(SyncPurged(Storage, processed, now).quizCollection)
                          - Len(SyncSwept(Storage, processed, now).quizCollection),
                     !.served = getPublicQuizzes(st.quizCollection),
                     !.status = 200]
             ELSE [NoRequest EXCEPT !.route = "POST /api/quizzes/sync",
                                    !.batch = batch,
                                    !.status = 400]
  /\ ServerFrame

----------------------------------------------------------------------------
(* The server taking one request after another *)

ServerInit ==
  /\ quizCollection = <<>>
  /\ quizCurrentId = 1
  /\ uuidCount = 0
  /\ last = NoRequest
  /\ observed = NotObserving

ClientInit ==
  /\ quizzes = <<>>
  /\ requestBody = <<>>
  /\ clientUuidCount = 0
  /\ fetchCount = 0

Requests == 1..NumRequests

IdleCall == [pc |-> "idle", batch |-> <<>>, k |-> 0, existingId |-> 0, newVersion |-> 0,
             served |-> <<>>]

DbInit ==
  /\ dbQuizzes = <<>>
  /\ dbNextId = 1
  /\ calls = [r \in Requests |-> IdleCall]
  /\ dbLog = EmptyMap
  /\ callCount = 0

NoCall == [method |-> "none", deleteCount |-> 0]

MemIdle ==
  /\ initialCollection = <<>>
  /\ memQuizCollection = <<>>
  /\ memLast = NoCall

NoQuiz == [title |-> <<>>, questions |-> <<>>]
NoHashes == [server |-> <<>>, client |-> <<>>]

HashIdle ==
  /\ hashQuiz = NoQuiz
  /\ hashPermuted = NoQuiz
  /\ hashes = NoHashes

Init == ServerInit /\ ClientInit /\ DbInit /\ MemIdle /\ HashIdle

Next ==
  \/ GetQuizzes
  \/ \E u \in 1..(NumClientIds + MaxUuid) : GetQuizByUniqueId(u)
  \/ \E id \in 1..MaxQuizId : GetQuiz(id)
  \/ \E quizData \in PostBodies, now \in Times : PostQuiz(quizData, now)
  \/ \E id \in 1..MaxQuizId, quizData \in PutBodies : PutQuiz(id, quizData)
  \/ \E u \in 1..(NumClientIds + MaxUuid) : DeleteQuizByUniqueId(u)
  \/ \E id \in 1..MaxQuizId : DeleteQuizById(id)
  \/ Cleanup
  \/ \E batch \in SyncBatches, now \in Times : SyncRoute(batch, now)

Spec == Init /\ [][Next]_vars

----------------------------------------------------------------------------
(* Claims about the server *)

SyncDone == last.route = "POST /api/quizzes/sync"
CleanupDone == last.route = "POST /api/quizzes/cleanup"

\* the uniqueIds of the quizzes of a collection, and how many it holds under one
UniqueIdsOf(coll) == {coll[i].uniqueId : i \in 1..Len(coll)}
CountUnder(coll, u) == Cardinality({i \in 1..Len(coll) : coll[i].uniqueId = u})

\* the item is private, has a uniqueId, and no public item of the batch shares it
PrivateOnly(batch, i) ==
  /\ batch[i].isPublic = "false"
  /\ batch[i].uniqueId # 0
  /\ \A j \in 1..Len(batch) :
       ~(batch[j].isPublic = "true" /\ batch[j].uniqueId = batch[i].uniqueId)

\* C1: privacy non-leak. After a sync call whose batch holds a private record
\* with uniqueId u, and no public record under u, the store has no record with
\* uniqueId u.
C1_PrivacyNonLeak ==
  SyncDone =>
    \A i \in 1..Len(last.batch) :
       PrivateOnly(last.batch, i) =>
         FindByUniqueId(quizCollection, last.batch[i].uniqueId) = 0

\* C2: whenever a sync call has completed, every record of the store has
\* isPublic = true.
C2_OnlyPublicAfterSync ==
  SyncDone => \A i \in 1..Len(quizCollection) : quizCollection[i].isPublic = "true"

\* a sync has completed whose sweep deleted a record that was not public, and
\* the store still holds a record
C2_Witness ==
  SyncDone /\ last.privateDeleted > 0 /\ Len(quizCollection) > 0

ReadRoutes ==
  {"GET /api/quizzes", "GET /api/quizzes/:id", "GET /api/quizzes/unique/:uniqueId",
   "POST /api/quizzes/sync"}

\* C3: no read operation (the three GET routes, the sync response) returns a
\* record whose isPublic is false.
C3_PrivateNeverServed ==
  last.route \in ReadRoutes =>
    \A i \in 1..Len(last.served) : last.served[i].isPublic # "false"

\* C5: shared-store key uniqueness. No two records of the store have the same
\* uniqueId.
C5_UniqueIdUnique ==
  \A i, j \in 1..Len(quizCollection) :
     (i # j /\ quizCollection[i].uniqueId # 0)
       => quizCollection[i].uniqueId # quizCollection[j].uniqueId

\* the quizzes of a sequence, as a set
Range(seq) == {seq[i] : i \in 1..Len(seq)}

\* C22: the response of the sync route and that of GET /api/quizzes are each
\* exactly the stored quizzes with isPublic = true, as the store stands when
\* the response is built.
C22_ResponsesArePublicSet ==
  (SyncDone \/ last.route = "GET /api/quizzes") =>
    /\ Range(last.served) = {q \in Range(quizCollection) : q.isPublic = "true"}
    /\ Len(last.served) = Cardinality(Range(last.served))

\* a sync response holds a quiz under a uniqueId the batch does not name
C22_Witness ==
  /\ SyncDone
  /\ last.batch # <<>>
  /\ \E q \in Range(last.served) :
        \A k \in 1..Len(last.batch) : last.batch[k].uniqueId # q.uniqueId

DeletedByUniqueId == last'.route = "DELETE /api/quizzes/unique/:uniqueId"

\* C23: DELETE /api/quizzes/unique/u leaves no quiz under u and every quiz
\* under another uniqueId as it was; it answers 200 exactly when a quiz under
\* u was stored, and 404, with the store as it was, when none was.
C23_DeleteByUniqueId ==
  [][DeletedByUniqueId =>
       LET u == last'.key
           held == \E q \in Range(quizCollection) : q.uniqueId = u IN
       /\ \A q \in Range(quizCollection') : q.uniqueId # u
       /\ SelectSeq(quizCollection', LAMBDA q : q.uniqueId # u)
            = SelectSeq(quizCollection, LAMBDA q : q.uniqueId # u)
       /\ (last'.status = 200) <=> held
       /\ ~held => (quizCollection' = quizCollection /\ last'.status = 404)]_vars

CleanedUp == last'.route = "POST /api/quizzes/cleanup"

\* C24: the cleanup reports the number of quizzes it has removed, the size of
\* the store before it less the size after it, and every quiz it leaves is
\* as it was, the private ones among them.
C24_CleanupCountsRemovals ==
  [][CleanedUp =>
       /\ last'.removedCount = Len(quizCollection) - Len(quizCollection')
       /\ Range(quizCollection') \subseteq Range(quizCollection)]_vars

\* a cleanup has removed a quiz and left one that is not public
C24_Witness ==
  /\ CleanupDone
  /\ last.removedCount > 0
  /\ \E q \in Range(quizCollection) : q.isPublic # "true"

\* the batch holds a public and a private item under the uniqueId
PublicAndPrivate(batch, uniqueId) ==
  /\ uniqueId # 0
  /\ \E k, l \in 1..Len(batch) :
        /\ batch[k].uniqueId = uniqueId /\ batch[k].isPublic = "true"
        /\ batch[l].uniqueId = uniqueId /\ batch[l].isPublic = "false"

\* C29: within one sync call every upsert comes before every purge delete and
\* the public set is read after both; so after a sync of a batch that holds a
\* public and a private item under one uniqueId, no record is stored under that
\* uniqueId and none is served.
C29_UpsertThenPurge ==
  (SyncDone /\ last.status = 200) =>
    \A u \in UniqueIdsOf(last.batch) :
       PublicAndPrivate(last.batch, u) =>
         /\ CountUnder(quizCollection, u) = 0
         /\ CountUnder(last.served, u) = 0

\* C38: after a sync call has completed, every public item of the batch that
\* has a uniqueId under which the batch lists no private item has a record in
\* the store under that uniqueId and is served, whatever the store held before:
\* the duplicate pass that ends the sync drops no record just upserted.
C38_UpsertedSurvivesSync ==
  (SyncDone /\ last.status = 200) =>
    \A k \in 1..Len(last.batch) :
       LET u == last.batch[k].uniqueId IN
       (last.batch[k].isPublic = "true" /\ u # 0 /\ ~PublicAndPrivate(last.batch, u))
         => /\ CountUnder(quizCollection, u) >= 1
            /\ CountUnder(last.served, u) >= 1

----------------------------------------------------------------------------
(* The client: the local collection and syncPublicQuizzesWithServer *)

\* crypto.randomUUID() / uuidv4() on the client: the n-th identifier generated
clientUuid(n) == n

\* handleSaveQuiz: the new quiz gets an id, and a uniqueId only when it is public
handleSaveQuiz(content, isPublic) ==
  LET hasUniqueId == isPublic = "true"
      quizWithId ==
        [id |-> clientUuid(clientUuidCount + 1),
         uniqueId |-> IF hasUniqueId THEN clientUuid(clientUuidCount + 2) ELSE 0,
         title |-> content.title,
         questions |-> content.questions,
         isPublic |-> isPublic,
         version |-> 1,
         createdAt |-> 1] IN
  /\ Len(quizzes) < MaxLocal
  /\ clientUuidCount + 2 <= MaxClientUuid
  /\ quizzes' = Append(quizzes, quizWithId)
  /\ clientUuidCount' = clientUuidCount + (IF hasUniqueId THEN 2 ELSE 1)
  /\ UNCHANGED requestBody
  /\ ClientFrame

\* handlePasswordSubmit then handleUpdateQuiz: the form is loaded from the quiz,
\* edited, and written back with the quiz's own id and uniqueId
handleUpdateQuiz(quizToEdit, content, isPublic) ==
  /\ quizToEdit \in 1..Len(quizzes)
  /\ quizzes' = [quizzes EXCEPT ![quizToEdit] =
                   [id |-> @.id,
                    uniqueId |-> @.uniqueId,
                    title |-> content.title,
                    questions |-> content.questions,
                    isPublic |-> isPublic,
                    version |-> IF @.version # 0 THEN @.version ELSE 1,
                    createdAt |-> @.createdAt]]
  /\ UNCHANGED <<requestBody, clientUuidCount>>
  /\ ClientFrame

\* handleDeleteQuizConfirm: the local removal
handleDeleteQuizConfirm(quizToDelete) ==
  /\ quizToDelete \in 1..Len(quizzes)
  /\ quizzes' = [i \in 1..(Len(quizzes) - 1) |->
                   IF i < quizToDelete THEN quizzes[i] ELSE quizzes[i + 1]]
  /\ UNCHANGED <<requestBody, clientUuidCount>>
  /\ ClientFrame

\* how many of the first k quizzes are public and lack a uniqueId
MissingIdBefore(qs, k) ==
  Cardinality({i \in 1..k : qs[i].isPublic = "true" /\ qs[i].uniqueId = 0})

\* a map that leaves the quizzes as they are
AssignUniqueIds_none(qs, count) == qs

\* the map of syncPublicQuizzesWithServer applied in place: every public quiz
\* without a uniqueId is given a new one
AssignUniqueIds(qs, count) ==
  [i \in 1..Len(qs) |->
     IF qs[i].isPublic = "true" /\ qs[i].uniqueId = 0
     THEN [qs[i] EXCEPT !.uniqueId = clientUuid(count + MissingIdBefore(qs, i))]
     ELSE qs[i]]

\* preparedQuizzes: the public quizzes, each with a uniqueId
preparedQuizzes(qs, count) ==
  SelectSeq(AssignUniqueIds(SelectSeq(qs, LAMBDA q : q.isPublic = "true"), count),
            LAMBDA q : q.isPublic = "true")

\* syncPublicQuizzesWithServer, up to the request it sends
syncPublicQuizzesWithServer ==
  LET missing == MissingIdBefore(quizzes, Len(quizzes)) IN
  /\ \E i \in 1..Len(quizzes) : quizzes[i].isPublic = "true"
  /\ clientUuidCount + missing <= MaxClientUuid
  /\ requestBody' = preparedQuizzes(quizzes, clientUuidCount)
  /\ quizzes' = AssignUniqueIds(quizzes, clientUuidCount)
  /\ clientUuidCount' = clientUuidCount + missing
  /\ ClientFrame

NextClient ==
  \/ \E content \in Contents, isPublic \in {"true", "false"} :
        handleSaveQuiz(content, isPublic)
  \/ \E i \in 1..MaxLocal, content \in Contents, isPublic \in {"true", "false"} :
        handleUpdateQuiz(i, content, isPublic)
  \/ \E i \in 1..MaxLocal : handleDeleteQuizConfirm(i)
  \/ syncPublicQuizzesWithServer

SpecClient == Init /\ [][NextClient]_vars

\* C4: every quiz in the body of a sync request the client sends has
\* isPublic = true and a uniqueId.
C4_ClientSendsOnlyPublic ==
  \A i \in 1..Len(requestBody) :
     requestBody[i].isPublic = "true" /\ requestBody[i].uniqueId # 0

\* a request has been sent while the local collection holds a private quiz that
\* has a uniqueId, and the request does not carry it
C4_Witness ==
  /\ requestBody # <<>>
  /\ \E i \in 1..Len(quizzes) :
       /\ quizzes[i].isPublic = "false"
       /\ quizzes[i].uniqueId # 0
       /\ \A j \in 1..Len(requestBody) : requestBody[j].uniqueId # quizzes[i].uniqueId


\* the step edits the i-th local quiz: its title, its questions or its
\* visibility change, the collection keeping its length
Edited(i) ==
  /\ i \in 1..Len(quizzes)
  /\ Len(quizzes') = Len(quizzes)
  /\ \/ quizzes'[i].title # quizzes[i].title
     \/ quizzes'[i].questions # quizzes[i].questions
     \/ quizzes'[i].isPublic # quizzes[i].isPublic

\* C34: every accepted local edit (handleUpdateQuiz) raises the version of the
\* edited quiz by exactly 1 and leaves its id and its uniqueId as they were.
C34_EditIncrementsVersion ==
  [][\A i \in 1..MaxLocal :
       Edited(i) => /\ quizzes'[i].version = quizzes[i].version + 1
                    /\ quizzes'[i].id = quizzes[i].id
                    /\ quizzes'[i].uniqueId = quizzes[i].uniqueId]_vars

----------------------------------------------------------------------------
(* The client and the server together: the body the client sends is what the *)
(* sync route handles                                                        *)

\* the last request the client sent has been handled
Served == SyncDone /\ last.batch = requestBody

\* POST /api/quizzes/sync on the body of syncPublicQuizzesWithServer
ServeSync(now) ==
  /\ requestBody # <<>>
  /\ ~Served
  /\ SyncRoute(requestBody, now)

NextEndToEnd ==
  \/ \E content \in Contents, isPublic \in {"true", "false"} :
        handleSaveQuiz(content, isPublic)
  \/ \E i \in 1..MaxLocal, content \in Contents, isPublic \in {"true", "false"} :
        handleUpdateQuiz(i, content, isPublic)
  \/ syncPublicQuizzesWithServer
  \/ \E now \in Times : ServeSync(now)

SpecEndToEnd == Init /\ [][NextEndToEnd]_vars

\* the client's sync has run on the local collection as it stands: the request
\* sent last carries its public quizzes and has been handled
ClientSynced ==
  /\ Served
  /\ requestBody = SelectSeq(quizzes, LAMBDA q : q.isPublic = "true")

\* C21: end-to-end privacy flip. Once the client's sync has run after a quiz
\* that has a uniqueId was made private, the shared store holds no quiz under
\* that uniqueId.
C21_PrivacyFlipRetracts ==
  ClientSynced =>
    \A i \in 1..Len(quizzes) :
       (quizzes[i].isPublic = "false" /\ quizzes[i].uniqueId # 0)
         => \A j \in 1..Len(quizCollection) :
               quizCollection[j].uniqueId # quizzes[i].uniqueId

----------------------------------------------------------------------------
(* The client's fetchPublicQuizzesFromServer and cleanupServerDuplicates, in   *)
(* front of a server that holds quizzes of this client and of another          *)

\* String.prototype.includes
includes(s, t) ==
  \E k \in 0..(Len(s) - Len(t)) : SubSeq(s, k + 1, k + Len(t)) = t

\* how many questions of the local quiz have a question of the server quiz
\* whose normalized text equals, contains or is contained in theirs
matchingQuestions(localQuiz, serverQuiz) ==
  Cardinality(
    {i \in 1..Len(localQuiz.questions) :
       \E k \in 1..Len(serverQuiz.questions) :
          LET localQuestionText == Normalize(localQuiz.questions[i].question)
              serverQuestionText == Normalize(serverQuiz.questions[k].question) IN
          \/ localQuestionText = serverQuestionText
          \/ includes(localQuestionText, serverQuestionText)
          \/ includes(serverQuestionText, localQuestionText)})

\* the title-based test of the merge: same normalized title, question counts at
\* most 1 apart, matchingQuestions >= Math.min(len, len) * 0.7
SimilarLocally(localQuiz, serverQuiz) ==
  /\ Normalize(localQuiz.title) = Normalize(serverQuiz.title)
  /\ Abs(Len(localQuiz.questions) - Len(serverQuiz.questions)) <= 1
  /\ 10 * matchingQuestions(localQuiz, serverQuiz)
       >= 7 * Min(Len(localQuiz.questions), Len(serverQuiz.questions))

\* a filter that lets every server quiz through
IsNewServerQuiz_any(prevQuizzes, serverQuiz) == TRUE

\* the filter of the merge: the server quiz is kept unless its uniqueId, its
\* content hash or a similar quiz of its title is found locally
IsNewServerQuiz(prevQuizzes, serverQuiz) ==
  /\ ~(serverQuiz.uniqueId # 0
         /\ \E i \in 1..Len(prevQuizzes) : prevQuizzes[i].uniqueId = serverQuiz.uniqueId)
  /\ \A i \in 1..Len(prevQuizzes) :
        createQuizContentHash(prevQuizzes[i]) # createQuizContentHash(serverQuiz)
  /\ \A i \in 1..Len(prevQuizzes) : ~SimilarLocally(prevQuizzes[i], serverQuiz)

\* the map of the merge: id: quiz.id || quiz.uniqueId
Imported(quiz) == [quiz EXCEPT !.id = IF @ # 0 THEN @ ELSE quiz.uniqueId]

\* the updater of setQuizzes: [...prevQuizzes, ...newServerQuizzes]
MergeServerQuizzes(prevQuizzes, serverQuizzes) ==
  LET newServerQuizzes ==
        SelectSeq(serverQuizzes, LAMBDA q : IsNewServerQuiz(prevQuizzes, q)) IN
  prevQuizzes \o [k \in 1..Len(newServerQuizzes) |-> Imported(newServerQuizzes[k])]

\* what a client action that calls the server leaves alone
CallFrame ==
  /\ UNCHANGED <<requestBody, clientUuidCount, dbVars, memVars, hashVars>>
  /\ observed' = Observe(observed, quizCollection, quizCollection', last, last')

\* fetchPublicQuizzesFromServer: GET /api/quizzes, then the merge
fetchPublicQuizzesFromServer ==
  LET serverQuizzes == getPublicQuizzes(quizCollection) IN
  /\ fetchCount < MaxFetches
  /\ last' = [NoRequest EXCEPT !.route = "GET /api/quizzes",
                               !.served = serverQuizzes,
                               !.status = 200]
  /\ quizzes' = MergeServerQuizzes(quizzes, serverQuizzes)
  /\ fetchCount' = fetchCount + 1
  /\ UNCHANGED <<quizCollection, quizCurrentId, uuidCount>>
  /\ CallFrame

\* cleanupServerDuplicates: POST /api/quizzes/cleanup and, when it removed
\* something, GET /api/quizzes and the filter of the local quizzes on the
\* uniqueIds the server serves
cleanupServerDuplicates ==
  LET res == removeDuplicateQuizzes(quizCollection)
      serverQuizzes == getPublicQuizzes(res.collection)
      validServerUniqueIds == {serverQuizzes[k].uniqueId : k \in 1..Len(serverQuizzes)} IN
  /\ quizCollection' = res.collection
  /\ UNCHANGED <<quizCurrentId, uuidCount>>
  /\ IF res.deleteCount > 0
     THEN /\ last' = [NoRequest EXCEPT !.route = "GET /api/quizzes",
                                       !.served = serverQuizzes,
                                       !.status = 200]
          /\ quizzes' = SelectSeq(quizzes, LAMBDA quiz :
                                    quiz.uniqueId = 0 \/ quiz.uniqueId \in validServerUniqueIds)
     ELSE /\ last' = [NoRequest EXCEPT !.route = "POST /api/quizzes/cleanup",
                                       !.removedCount = 0,
                                       !.status = 200]
          /\ UNCHANGED quizzes
  /\ UNCHANGED fetchCount
  /\ CallFrame

\* uniqueIds on the server: the first the client generates for a public quiz,
\* and one of another client
FetchUniqueIds == {2, MaxClientUuid + 1}

FetchServerQuizzes ==
  { [uniqueId |-> u, title |-> c.title, questions |-> c.questions, isPublic |-> "true",
     version |-> v, createdAt |-> 1] :
    u \in FetchUniqueIds, c \in Contents, v \in 1..MaxVersion }

\* the server starts with up to MaxFetchLen quizzes, the client with none
FetchInit ==
  /\ \E n \in 0..MaxFetchLen : \E qs \in [1..n -> FetchServerQuizzes] :
        quizCollection = [i \in 1..n |-> Stored(qs[i], i)]
  /\ quizCurrentId = Len(quizCollection) + 1
  /\ uuidCount = 0
  /\ last = NoRequest
  /\ observed = NotObserving
  /\ ClientInit /\ DbInit /\ MemIdle /\ HashIdle

NextFetch ==
  \/ \E content \in Contents, isPublic \in {"true", "false"} :
        handleSaveQuiz(content, isPublic)
  \/ \E i \in 1..MaxLocal, content \in Contents, isPublic \in {"true", "false"} :
        handleUpdateQuiz(i, content, isPublic)
  \/ \E i \in 1..MaxLocal : handleDeleteQuizConfirm(i)
  \/ fetchPublicQuizzesFromServer
  \/ cleanupServerDuplicates

SpecFetch == FetchInit /\ [][NextFetch]_vars

\* the step is a fetchPublicQuizzesFromServer
FetchStep == fetchCount' = fetchCount + 1

\* the copy the collection holds under the uniqueId
CopyUnder(coll, u) == coll[FindByUniqueId(coll, u)]

\* C35: the client merge applies the Precedence Rule. After
\* fetchPublicQuizzesFromServer, for every uniqueId present both locally and on
\* the server the local collection holds a copy whose version is the greater
\* of the two.
C35_MergeKeepsGreaterVersion ==
  [][FetchStep =>
       \A u \in UniqueIdsOf(quizzes) \cap UniqueIdsOf(last'.served) :
          u # 0 =>
            \A k \in 1..Len(last'.served) :
               last'.served[k].uniqueId = u
                 => CopyUnder(quizzes', u).version >= last'.served[k].version]_vars

\* C36: a local quiz is retained. A step that removes a quiz from the local
\* collection is the user's delete: it sends no request to the server. Neither
\* fetchPublicQuizzesFromServer nor the reconciliation of
\* cleanupServerDuplicates removes one.
C36_LocalRetained ==
  [][(\E i \in 1..Len(quizzes) :
         \A j \in 1..Len(quizzes') :
            ~(quizzes'[j].id = quizzes[i].id /\ quizzes'[j].uniqueId = quizzes[i].uniqueId))
       => last' = last]_vars

\* C39: the fetch-merge neither loses nor alters local data. After
\* fetchPublicQuizzesFromServer the local collection is the previous one,
\* unchanged and in its order, followed by records of the server none of which
\* has a uniqueId that was present locally.
C39_MergeAppendsOnly ==
  [][FetchStep =>
       /\ Len(quizzes') >= Len(quizzes)
       /\ SubSeq(quizzes', 1, Len(quizzes)) = quizzes
       /\ \A k \in (Len(quizzes) + 1)..Len(quizzes') :
             /\ quizzes'[k] \in Range(last'.served)
             /\ quizzes'[k].uniqueId # 0
                  => quizzes'[k].uniqueId \notin UniqueIdsOf(quizzes)]_vars

\* a fetch has added a quiz of another client behind a quiz the client saved,
\* which is served under its uniqueId at another version and is left as it was
C39_Witness ==
  /\ fetchCount > 0
  /\ last.route = "GET /api/quizzes"
  /\ Len(quizzes) >= 2
  /\ quizzes[1].uniqueId = 2
  /\ quizzes[1].version = 1
  /\ quizzes[Len(quizzes)].uniqueId = MaxClientUuid + 1
  /\ \E k \in 1..Len(last.served) :
        last.served[k].uniqueId = 2 /\ last.served[k].version = 2

----------------------------------------------------------------------------
(* DbStorage.syncQuizzes, one step per awaited database call, so that the    *)
(* calls of concurrent requests interleave                                   *)

FirstFrom(flags, k) ==
  IF \E i \in k..Len(flags) : flags[i]
  THEN CHOOSE i \in k..Len(flags) : flags[i] /\ \A j \in k..(i - 1) : ~flags[j]
  ELSE 0

publicQuizzesToSync(batch) == SelectSeq(batch, LAMBDA q : q.isPublic = "true")

\* the second loop from item k on: the next private item with a uniqueId is
\* looked up; with none left, deletePrivateQuizzes comes next
ToPurge(c, k) ==
  LET i == FirstFrom([j \in 1..Len(c.batch) |->
                        c.batch[j].isPublic # "true" /\ c.batch[j].uniqueId # 0], k) IN
  IF i # 0 THEN [c EXCEPT !.pc = "purgeLookup", !.k = i]
  ELSE [c EXCEPT !.pc = "sweep", !.k = 0]

\* the first loop from item k on: items without a uniqueId are skipped
ToUpsert(c, k) ==
  LET pub == publicQuizzesToSync(c.batch)
      i == FirstFrom([j \in 1..Len(pub) |-> pub[j].uniqueId # 0], k) IN
  IF i # 0 THEN [c EXCEPT !.pc = "lookup", !.k = i]
  ELSE ToPurge(c, 1)

\* the request arrives and syncQuizzes runs up to its first await
DbStart(r, batch) ==
  /\ calls[r].pc = "idle"
  /\ callCount < MaxCalls
  /\ callCount' = callCount + 1
  /\ calls' = [calls EXCEPT ![r] = ToUpsert([IdleCall EXCEPT !.batch = batch], 1)]
  /\ UNCHANGED <<dbQuizzes, dbNextId, dbLog>>
  /\ DbFrame

\* await this.getQuizByUniqueId(quizToSync.uniqueId)
DbLookup(r) ==
  LET c == calls[r]
      quizToSync == publicQuizzesToSync(c.batch)[c.k]
      i == FindByUniqueId(dbQuizzes, quizToSync.uniqueId) IN
  /\ c.pc = "lookup"
  /\ calls' = [calls EXCEPT ![r] =
                 IF i # 0 THEN [c EXCEPT !.pc = "updateRead", !.existingId = dbQuizzes[i].id]
                 ELSE [c EXCEPT !.pc = "insert"]]
  /\ UNCHANGED <<dbQuizzes, dbNextId, dbLog, callCount>>
  /\ DbFrame

\* updateQuiz: let currentQuiz = await this.getQuiz(id)
DbUpdateRead(r) ==
  LET c == calls[r]
      i == FindById(dbQuizzes, c.existingId) IN
  /\ c.pc = "updateRead"
  /\ calls' = [calls EXCEPT ![r] =
                 IF i = 0 THEN ToUpsert(c, c.k + 1)
                 ELSE [c EXCEPT !.pc = "updateWrite",
                                !.newVersion = IF dbQuizzes[i].version # 0
                                               THEN dbQuizzes[i].version + 1 ELSE 1]]
  /\ UNCHANGED <<dbQuizzes, dbNextId, dbLog, callCount>>
  /\ DbFrame

\* the row updateQuiz writes: set({ ...quizUpdate, version: newVersion })
UpdatedRow(row, quizUpdate, newVersion) ==
  [row EXCEPT !.uniqueId = quizUpdate.uniqueId,
              !.title = quizUpdate.title,
              !.questions = quizUpdate.questions,
              !.isPublic = quizUpdate.isPublic,
              !.createdAt = quizUpdate.createdAt,
              !.version = newVersion]

\* updateQuiz: await this.db.update(quizzes).set(...).where(eq(quizzes.id, id))
DbUpdateWrite(r) ==
  LET c == calls[r]
      quizToSync == publicQuizzesToSync(c.batch)[c.k]
      i == FindById(dbQuizzes, c.existingId) IN
  /\ c.pc = "updateWrite"
  /\ c.newVersion <= MaxDbVersion
  /\ dbQuizzes' = IF i = 0 THEN dbQuizzes
                  ELSE [dbQuizzes EXCEPT ![i] = UpdatedRow(@, quizToSync, c.newVersion)]
  /\ dbLog' = IF i = 0 THEN dbLog
              ELSE [dbLog EXCEPT ![c.existingId].writes = @ + 1]
  /\ calls' = [calls EXCEPT ![r] = ToUpsert(c, c.k + 1)]
  /\ UNCHANGED <<dbNextId, callCount>>
  /\ DbFrame

\* createQuiz: await this.db.insert(quizzes).values(quiz)
DbInsert(r) ==
  LET c == calls[r]
      quizToSync == publicQuizzesToSync(c.batch)[c.k]
      row == [id |-> dbNextId,
              uniqueId |-> quizToSync.uniqueId,
              title |-> quizToSync.title,
              questions |-> quizToSync.questions,
              isPublic |-> quizToSync.isPublic,
              version |-> quizToSync.version,
              createdAt |-> quizToSync.createdAt] IN
  /\ c.pc = "insert"
  /\ dbNextId <= MaxDbRecords
  /\ dbQuizzes' = Append(dbQuizzes, row)
  /\ dbNextId' = dbNextId + 1
  /\ dbLog' = (dbNextId :> [inserted |-> row.version, writes |-> 0]) @@ dbLog
  /\ calls' = [calls EXCEPT ![r] = ToUpsert(c, c.k + 1)]
  /\ UNCHANGED callCount
  /\ DbFrame

\* second loop: await this.getQuizByUniqueId(quizToSync.uniqueId)
DbPurgeLookup(r) ==
  LET c == calls[r]
      i == FindByUniqueId(dbQuizzes, c.batch[c.k].uniqueId) IN
  /\ c.pc = "purgeLookup"
  /\ calls' = [calls EXCEPT ![r] =
                 IF i # 0 THEN [c EXCEPT !.pc = "purgeDelete", !.existingId = dbQuizzes[i].id]
                 ELSE ToPurge(c, c.k + 1)]
  /\ UNCHANGED <<dbQuizzes, dbNextId, dbLog, callCount>>
  /\ DbFrame

\* second loop: await this.deleteQuiz(existingQuiz.id)
DbPurgeDelete(r) ==
  LET c == calls[r] IN
  /\ c.pc = "purgeDelete"
  /\ dbQuizzes' = DeleteId(dbQuizzes, c.existingId)
  /\ calls' = [calls EXCEPT ![r] = ToPurge(c, c.k + 1)]
  /\ UNCHANGED <<dbNextId, dbLog, callCount>>
  /\ DbFrame

\* await this.deletePrivateQuizzes(): delete where isPublic = false
DbSweep(r) ==
  LET c == calls[r] IN
  /\ c.pc = "sweep"
  /\ dbQuizzes' = SelectSeq(dbQuizzes, LAMBDA q : q.isPublic # "false")
  /\ calls' = [calls EXCEPT ![r].pc = "respond"]
  /\ UNCHANGED <<dbNextId, dbLog, callCount>>
  /\ DbFrame

\* return await this.getPublicQuizzes(); the request is answered
DbRespond(r) ==
  LET c == calls[r] IN
  /\ c.pc = "respond"
  /\ calls' = [calls EXCEPT ![r] = [IdleCall EXCEPT !.served = getPublicQuizzes(dbQuizzes)]]
  /\ UNCHANGED <<dbQuizzes, dbNextId, dbLog, callCount>>
  /\ DbFrame

\* what a client sends: one quiz per request, with its version and createdAt
DbSyncItems ==
  { [uniqueId |-> u, title |-> c.title, questions |-> c.questions, isPublic |-> p,
     version |-> 1, createdAt |-> 1] :
    u \in ClientIds, c \in Contents, p \in {"true", "false"} }

DbSyncBatches == {<<a>> : a \in DbSyncItems}

NextDb ==
  \/ \E r \in Requests, batch \in DbSyncBatches : DbStart(r, batch)
  \/ \E r \in Requests : DbLookup(r)
  \/ \E r \in Requests : DbUpdateRead(r)
  \/ \E r \in Requests : DbUpdateWrite(r)
  \/ \E r \in Requests : DbInsert(r)
  \/ \E r \in Requests : DbPurgeLookup(r)
  \/ \E r \in Requests : DbPurgeDelete(r)
  \/ \E r \in Requests : DbSweep(r)
  \/ \E r \in Requests : DbRespond(r)

SpecDb == Init /\ [][NextDb]_vars

\* C6: concurrent sync calls never leave two rows with one uniqueId.
C6_NoDuplicateUniqueId ==
  \A i, j \in 1..Len(dbQuizzes) :
     i # j => dbQuizzes[i].uniqueId # dbQuizzes[j].uniqueId

\* C7: no lost update on the version counter. The version of a row is the
\* version it was inserted with plus the number of updateQuiz writes completed
\* on it.
C7_NoLostUpdate ==
  \A i \in 1..Len(dbQuizzes) :
     dbQuizzes[i].version
       = dbLog[dbQuizzes[i].id].inserted + dbLog[dbQuizzes[i].id].writes

----------------------------------------------------------------------------
(* removeDuplicateQuizzes on a store loaded with any collection: the          *)
(* FileStorage through POST /api/quizzes/cleanup, the MemStorage by its method *)

\* version and createdAt of a stored quiz: both are always set (createQuiz)
Ages ==
  { [version |-> 1, createdAt |-> 1],
    [version |-> 2, createdAt |-> 1],
    [version |-> 1, createdAt |-> 2] }

\* the second is similar to the first and to the third, which are not similar to
\* each other, and its title differs from theirs before normalization only; the
\* last has another title
DedupContents ==
  { [title |-> <<"a">>, questions |-> <<Q1>>],
    [title |-> <<"A", " ">>, questions |-> <<Q1, Q2>>],
    [title |-> <<"a">>, questions |-> <<Q2>>],
    [title |-> <<"b">>, questions |-> <<Q2>>] }

\* stored quizzes less their id; uniqueId 0 is the empty one a PUT can leave
DedupQuizzes ==
  { [uniqueId |-> u, title |-> c.title, questions |-> c.questions, isPublic |-> "true",
     version |-> a.version, createdAt |-> a.createdAt] :
    u \in 0..NumClientIds, c \in DedupContents, a \in Ages }

\* the stores start with a collection of up to MaxDedupLen quizzes, their ids in
\* insertion order
DedupInit ==
  /\ \E n \in 0..MaxDedupLen : \E qs \in [1..n -> DedupQuizzes] :
        initialCollection = [i \in 1..n |-> Stored(qs[i], i)]
  /\ quizCollection = initialCollection
  /\ quizCurrentId = Len(initialCollection) + 1
  /\ uuidCount = 0
  /\ last = NoRequest
  /\ memQuizCollection = initialCollection
  /\ memLast = NoCall
  /\ observed = NotObserving
  /\ ClientInit /\ DbInit /\ HashIdle

\* MemStorage.removeDuplicateQuizzes()
MemRemoveDuplicateQuizzes ==
  LET res == memRemoveDuplicateQuizzes(memQuizCollection) IN
  /\ memQuizCollection' = res.collection
  /\ memLast' = [method |-> "removeDuplicateQuizzes", deleteCount |-> res.deleteCount]
  /\ UNCHANGED initialCollection
  /\ MemFrame

NextDedup ==
  \/ Cleanup
  \/ MemRemoveDuplicateQuizzes

SpecDedup == DedupInit /\ [][NextDedup]_vars

MemCleanupDone == memLast.method = "removeDuplicateQuizzes"

\* C8: idempotence of the Deduplicator. On the store a run of
\* removeDuplicateQuizzes has left, a second run returns 0 and leaves the store
\* unchanged, for the FileStorage and for the MemStorage.
C8_DedupIdempotent ==
  /\ CleanupDone =>
       removeDuplicateQuizzes(quizCollection)
         = [collection |-> quizCollection, deleteCount |-> 0]
  /\ MemCleanupDone =>
       memRemoveDuplicateQuizzes(memQuizCollection)
         = [collection |-> memQuizCollection, deleteCount |-> 0]

\* both stores have had a run that removed quizzes and left several
C8_Witness ==
  /\ CleanupDone /\ last.removedCount > 0 /\ Len(quizCollection) > 1
  /\ MemCleanupDone /\ memLast.deleteCount > 0 /\ Len(memQuizCollection) > 1

\* no two quizzes of the collection have the same non-empty uniqueId
OnePerUniqueId(coll) ==
  \A i, j \in 1..Len(coll) :
     (i # j /\ coll[i].uniqueId # 0) => coll[i].uniqueId # coll[j].uniqueId

\* C10: identity tier priority. After removeDuplicateQuizzes has run, at most
\* one quiz is left for each non-empty uniqueId, in the FileStorage and in the
\* MemStorage.
C10_OnePerUniqueIdAfterDedup ==
  /\ CleanupDone => OnePerUniqueId(quizCollection)
  /\ MemCleanupDone => OnePerUniqueId(memQuizCollection)

\* both stores have had their run on a collection in which two quizzes share a
\* uniqueId and differ in content hash and in title
C10_Witness ==
  /\ CleanupDone /\ MemCleanupDone
  /\ \E i, j \in 1..Len(initialCollection) :
        /\ i # j
        /\ initialCollection[i].uniqueId # 0
        /\ initialCollection[i].uniqueId = initialCollection[j].uniqueId
        /\ createContentHash(initialCollection[i]) # createContentHash(initialCollection[j])
        /\ Normalize(initialCollection[i].title) # Normalize(initialCollection[j].title)

\* a pair of quizzes was stored and one of the two is left
FilePairMerged ==
  CleanupDone /\ Len(initialCollection) = 2 /\ Len(quizCollection) = 1
MemPairMerged ==
  MemCleanupDone /\ Len(initialCollection) = 2 /\ Len(memQuizCollection) = 1

\* a stored quiz less its id
Unstored(q) ==
  [uniqueId |-> q.uniqueId, title |-> q.title, questions |-> q.questions,
   isPublic |-> q.isPublic, version |-> q.version, createdAt |-> q.createdAt]

\* the pair stored in the other order
Swapped(coll) == <<Stored(coll[2], 1), Stored(coll[1], 2)>>

SameAge(a, b) == a.version = b.version /\ a.createdAt = b.createdAt

\* C11: precedence determinism. When a pair of quizzes that differ in version
\* or createdAt is reduced to one by the FileStorage, the quiz left is the one
\* left when the pair is stored in the other order.
C11_PrecedenceDeterministic ==
  (FilePairMerged /\ ~SameAge(initialCollection[1], initialCollection[2])) =>
     LET other == removeDuplicateQuizzes(Swapped(initialCollection)).collection IN
     Len(other) = 1 => Unstored(other[1]) = Unstored(quizCollection[1])

MaxOf(a, b) == IF a > b THEN a ELSE b

\* C12: version has priority over recency. When a pair of quizzes with
\* different versions is reduced to one, the quiz left has the greater version,
\* in the FileStorage and in the MemStorage.
C12_VersionPriority ==
  /\ (FilePairMerged /\ initialCollection[1].version # initialCollection[2].version) =>
       quizCollection[1].version
         = MaxOf(initialCollection[1].version, initialCollection[2].version)
  /\ (MemPairMerged /\ initialCollection[1].version # initialCollection[2].version) =>
       memQuizCollection[1].version
         = MaxOf(initialCollection[1].version, initialCollection[2].version)

\* the stored quizzes are one class of the identifier tier
OneClass(coll) ==
  /\ Len(coll) >= 2
  /\ coll[1].uniqueId # 0
  /\ \A i \in 1..Len(coll) : coll[i].uniqueId = coll[1].uniqueId

\* no quiz of the collection has a greater version, nor the same version and a
\* later createdAt
Maximal(q, coll) ==
  \A i \in 1..Len(coll) :
     /\ coll[i].version <= q.version
     /\ coll[i].version = q.version => coll[i].createdAt <= q.createdAt

\* C13: order-independent global winner. Of n >= 2 stored quizzes with one
\* uniqueId, in whatever order they are stored, removeDuplicateQuizzes leaves
\* one, and it has the maximal version and, among those, the latest createdAt.
C13_GlobalWinner ==
  /\ (CleanupDone /\ OneClass(initialCollection)) =>
       (Len(quizCollection) = 1 /\ Maximal(quizCollection[1], initialCollection))
  /\ (MemCleanupDone /\ OneClass(initialCollection)) =>
       (Len(memQuizCollection) = 1 /\ Maximal(memQuizCollection[1], initialCollection))

\* the similarity matcher's verdict on two quizzes of one normalized title, in
\* either direction
FuzzyMatch(a, b) ==
  /\ Normalize(a.title) = Normalize(b.title)
  /\ Abs(Len(a.questions) - Len(b.questions)) <= 1
  /\ (ReachesThreshold(a, b) \/ ReachesThreshold(b, a))

\* quiz i of the collection matches no other quiz under any tier
Singleton(coll, i) ==
  \A j \in 1..Len(coll) :
     j # i =>
       /\ ~(coll[i].uniqueId # 0 /\ coll[i].uniqueId = coll[j].uniqueId)
       /\ createContentHash(coll[i]) # createContentHash(coll[j])
       /\ ~FuzzyMatch(coll[i], coll[j])

\* C14: a quiz that matches no other quiz of the collection under any tier is
\* still stored after removeDuplicateQuizzes (FileStorage).
C14_SingletonKept ==
  CleanupDone =>
    \A i \in 1..Len(initialCollection) :
       Singleton(initialCollection, i) => HasId(quizCollection, initialCollection[i].id)

\* a run has removed a quiz from a collection of three, one of which matches
\* no other
C14_Witness ==
  /\ CleanupDone /\ last.removedCount > 0
  /\ Len(initialCollection) = 3
  /\ \E i \in 1..3 : Singleton(initialCollection, i)

\* C15: a quiz that has no uniqueId and whose content hash differs from that of
\* every other quiz of the collection is still stored after
\* removeDuplicateQuizzes, in the FileStorage and in the MemStorage.
C15_UniqueHashKept ==
  \A i \in 1..Len(initialCollection) :
     (/\ initialCollection[i].uniqueId = 0
      /\ \A j \in 1..Len(initialCollection) :
            j # i => createContentHash(initialCollection[i])
                       # createContentHash(initialCollection[j]))
       => /\ CleanupDone => HasId(quizCollection, initialCollection[i].id)
          /\ MemCleanupDone => HasId(memQuizCollection, initialCollection[i].id)

\* quiz i has no uniqueId and a content hash no other quiz of the collection has
LoneHash(coll, i) ==
  /\ coll[i].uniqueId = 0
  /\ \A j \in 1..Len(coll) :
        j # i => createContentHash(coll[i]) # createContentHash(coll[j])

\* C15 as amended: a quiz that has no uniqueId, whose content hash differs from
\* that of every other quiz, and that no other quiz of the same normalized
\* title matches in the third pass, is still stored after
\* removeDuplicateQuizzes, in the FileStorage and in the MemStorage.
C15_UniqueHashUnmatchedKept ==
  \A i \in 1..Len(initialCollection) :
     (/\ LoneHash(initialCollection, i)
      /\ \A j \in 1..Len(initialCollection) :
            j # i => ~FuzzyMatch(initialCollection[i], initialCollection[j]))
       => /\ CleanupDone => HasId(quizCollection, initialCollection[i].id)
          /\ MemCleanupDone => HasId(memQuizCollection, initialCollection[i].id)

\* both stores have removed a quiz and kept one that has no uniqueId, a content
\* hash of its own and a title of its own
C15_Witness ==
  /\ CleanupDone /\ MemCleanupDone
  /\ Len(quizCollection) < Len(initialCollection)
  /\ Len(memQuizCollection) < Len(initialCollection)
  /\ \E i \in 1..Len(initialCollection) :
        /\ LoneHash(initialCollection, i)
        /\ \A j \in 1..Len(initialCollection) :
              j # i => ~FuzzyMatch(initialCollection[i], initialCollection[j])
        /\ HasId(quizCollection, initialCollection[i].id)
        /\ HasId(memQuizCollection, initialCollection[i].id)


\* C31: stable default on a full tie. When a pair of quizzes of equal version
\* and equal createdAt is reduced to one, in any of the three passes, the quiz
\* left is the first of the two; in the FileStorage and in the MemStorage.
C31_FirstKeptOnTie ==
  (Len(initialCollection) = 2 /\ SameAge(initialCollection[1], initialCollection[2])) =>
     /\ FilePairMerged => quizCollection[1].id = initialCollection[1].id
     /\ MemPairMerged => memQuizCollection[1].id = initialCollection[1].id


\* the third pass judges the two quizzes of the collection duplicates when it
\* compares them, the earlier as quiz1
JudgedDuplicate(coll, i, j) ==
  LET quiz1 == coll[Min(i, j)]
      quiz2 == coll[IF i < j THEN j ELSE i] IN
  /\ i # j
  /\ Abs(Len(quiz1.questions) - Len(quiz2.questions)) <= 1
  /\ 10 * matchCount(quiz1, quiz2) >= 8 * Min(Len(quiz1.questions), Len(quiz2.questions))

\* the quizzes linked to one of the set by a chain of judged duplicates
RECURSIVE Component(_, _)
Component(coll, set) ==
  LET next == set \cup {j \in 1..Len(coll) : \E k \in set : JudgedDuplicate(coll, k, j)} IN
  IF next = set THEN set ELSE Component(coll, next)

Components(coll) == {Component(coll, {i}) : i \in 1..Len(coll)}

\* the collection is one title group that the first two passes leave whole: one
\* normalized title, no content hash and no uniqueId twice
OneTitleGroup(coll) ==
  \A i, j \in 1..Len(coll) :
     /\ Normalize(coll[i].title) = Normalize(coll[j].title)
     /\ i # j => /\ createContentHash(coll[i]) # createContentHash(coll[j])
                 /\ (coll[i].uniqueId = 0 \/ coll[i].uniqueId # coll[j].uniqueId)

\* C32: transitive closure in the fuzzy tier. Of a group of same-titled quizzes
\* the third pass of the FileStorage leaves as many as the 'judged duplicate'
\* relation has connected components: when A~B and B~C, at most one of A, B
\* and C is left, also when A and C are not judged duplicates.
C32_FuzzyComponents ==
  (CleanupDone /\ OneTitleGroup(initialCollection)) =>
     Len(quizCollection) = Cardinality(Components(initialCollection))


\* the collection is a pair of quizzes under two different, non-empty uniqueIds
DistinctlyIdentified(coll) ==
  /\ Len(coll) = 2
  /\ coll[1].uniqueId # 0 /\ coll[2].uniqueId # 0
  /\ coll[1].uniqueId # coll[2].uniqueId

\* C37: two records that carry distinct non-empty uniqueIds are never merged:
\* removeDuplicateQuizzes removes neither of them for an equal content hash or
\* a same-title similarity, in the FileStorage as in the MemStorage.
C37_DistinctUniqueIdsKept ==
  DistinctlyIdentified(initialCollection) =>
     /\ CleanupDone => Len(quizCollection) = 2
     /\ MemCleanupDone => Len(memQuizCollection) = 2

----------------------------------------------------------------------------
(* DbStorage.removeDuplicateQuizzes behind the cleanup route, one step per   *)
(* awaited delete, any of which the database may fail                        *)

\* the passes of DbStorage.removeDuplicateQuizzes are those of MemStorage; this
\* is the list they leave
dbDuplicatesToRemove(allQuizzes) ==
  LET st0 == [uniqueIdMap |-> EmptyMap, contentHashMap |-> EmptyMap,
              uniqueQuizIds |-> {}, finalUniqueQuizIds |-> {},
              duplicatesRemoved |-> <<>>]
  IN MemPass3(MemPass2(MemPass1(st0, allQuizzes), allQuizzes), allQuizzes).duplicatesRemoved

\* the rows of the table the cleanup runs on
DbCleanupQuizzes ==
  { [uniqueId |-> u, title |-> c.title, questions |-> c.questions, isPublic |-> "true",
     version |-> a.version, createdAt |-> a.createdAt] :
    u \in 0..1, c \in Contents, a \in Ages }

DbCleanupInit ==
  /\ \E n \in 0..MaxDedupLen : \E qs \in [1..n -> DbCleanupQuizzes] :
        initialCollection = [i \in 1..n |-> Stored(qs[i], i)]
  /\ dbQuizzes = initialCollection
  /\ dbNextId = Len(initialCollection) + 1
  /\ calls = [r \in Requests |-> IdleCall]
  /\ dbLog = EmptyMap
  /\ callCount = 0
  /\ memQuizCollection = <<>>
  /\ memLast = NoCall
  /\ ServerInit /\ ClientInit /\ HashIdle

\* POST /api/quizzes/cleanup reaches removeDuplicateQuizzes: the rows are read
\* and the passes run; batch holds the duplicates still to delete, k the
\* deleteCount
DbCleanupStart(r) ==
  /\ calls[r].pc = "idle"
  /\ callCount = 0
  /\ callCount' = 1
  /\ calls' = [calls EXCEPT ![r] = [IdleCall EXCEPT !.pc = "delete",
                                                    !.batch = dbDuplicatesToRemove(dbQuizzes)]]
  /\ UNCHANGED <<dbQuizzes, dbNextId, dbLog>>
  /\ DbFrame

\* if (await this.deleteQuiz(quiz.id)) deleteCount++
DbCleanupDelete(r) ==
  LET c == calls[r] IN
  /\ c.pc = "delete"
  /\ c.batch # <<>>
  /\ dbQuizzes' = DeleteId(dbQuizzes, Head(c.batch).id)
  /\ calls' = [calls EXCEPT ![r] =
                 [c EXCEPT !.batch = Tail(c.batch),
                           !.k = IF HasId(dbQuizzes, Head(c.batch).id) THEN c.k + 1 ELSE c.k]]
  /\ UNCHANGED <<dbNextId, dbLog, callCount>>
  /\ DbFrame

\* the delete rejects: removeDuplicateQuizzes throws and the route answers 500
DbCleanupThrow(r) ==
  LET c == calls[r] IN
  /\ c.pc = "delete"
  /\ c.batch # <<>>
  /\ calls' = [calls EXCEPT ![r] = [c EXCEPT !.pc = "failed"]]
  /\ UNCHANGED <<dbQuizzes, dbNextId, dbLog, callCount>>
  /\ DbFrame

\* return deleteCount: the route answers with removedCount
DbCleanupReturn(r) ==
  LET c == calls[r] IN
  /\ c.pc = "delete"
  /\ c.batch = <<>>
  /\ calls' = [calls EXCEPT ![r] = [c EXCEPT !.pc = "cleaned"]]
  /\ UNCHANGED <<dbQuizzes, dbNextId, dbLog, callCount>>
  /\ DbFrame

NextDbCleanup ==
  \/ DbCleanupStart(1)
  \/ DbCleanupDelete(1)
  \/ DbCleanupThrow(1)
  \/ DbCleanupReturn(1)

SpecDbCleanup == DbCleanupInit /\ [][NextDbCleanup]_vars

\* C26: a cleanup that fails has deleted nothing: when a delete throws, the
\* table holds the rows it held before the cleanup.
C26_FailedCleanupDeletesNothing ==
  calls[1].pc = "failed" => dbQuizzes = initialCollection

----------------------------------------------------------------------------
(* The sync route on batches whose quizzes carry a version, with the deletions *)
(* and the cleanup, the history being recorded                                 *)

SyncVersions == 0..MaxVersion

\* public quizzes with and without a version, private ones as the purge reads
\* them
VersionedItems ==
  { [uniqueId |-> u, title |-> c.title, questions |-> c.questions, isPublic |-> "true",
     version |-> v, createdAt |-> 0] :
    u \in {0} \cup ClientIds, c \in Contents, v \in SyncVersions }
    \cup InsertQuizzes(ClientIds, {"false"})

VersionedBatches == {<<a>> : a \in VersionedItems}

SyncInit ==
  /\ quizCollection = <<>>
  /\ quizCurrentId = 1
  /\ uuidCount = 0
  /\ last = NoRequest
  /\ observed = Observing
  /\ ClientInit /\ DbInit /\ MemIdle /\ HashIdle

NextSync ==
  \/ \E batch \in VersionedBatches, now \in Times : SyncRoute(batch, now)
  \/ \E u \in ClientIds : DeleteQuizByUniqueId(u)
  \/ Cleanup

SpecSync == SyncInit /\ [][NextSync]_vars

\* a sync request has just been served and the history holds the collection it
\* found
SyncObserved == SyncDone /\ observed.on

\* the public quizzes of the batch that carry the uniqueId
PublicWith(batch, u) ==
  SelectSeq(batch, LAMBDA q : q.isPublic = "true" /\ q.uniqueId = u)

\* the quiz the request found under the uniqueId, and what has become of it
FoundUnder(u) == observed.before[FindByUniqueId(observed.before, u)]
StillStored(u) ==
  /\ FindByUniqueId(observed.before, u) # 0
  /\ HasId(quizCollection, FoundUnder(u).id)
NowUnder(u) == quizCollection[FindById(quizCollection, FoundUnder(u).id)]

\* C16: the upsert step overwrites a stored quiz only when the incoming quiz
\* wins: a public quiz synced with a version strictly lower than the version
\* stored under its uniqueId leaves the title and the questions of the stored
\* quiz as they were.
C16_LowerVersionLeavesStored ==
  SyncObserved =>
    \A k \in 1..Len(last.batch) :
       LET item == last.batch[k]
           u == item.uniqueId IN
       (/\ item.isPublic = "true" /\ u # 0 /\ StillStored(u)
        /\ item.version # 0 /\ item.version < FoundUnder(u).version)
         => /\ NowUnder(u).title = FoundUnder(u).title
            /\ NowUnder(u).questions = FoundUnder(u).questions

\* C17: a sync of public quizzes under a uniqueId the store holds writes the
\* content of the last of them, with the version stored before plus one for
\* each of them, whatever versions they carry.
C17_UpdateIncrementsStoredVersion ==
  SyncObserved =>
    \A u \in ClientIds :
       LET incoming == PublicWith(last.batch, u) IN
       (incoming # <<>> /\ StillStored(u))
         => /\ NowUnder(u).version = FoundUnder(u).version + Len(incoming)
            /\ NowUnder(u).title = incoming[Len(incoming)].title
            /\ NowUnder(u).questions = incoming[Len(incoming)].questions

\* a sync has updated a stored quiz with a quiz whose own version is neither
\* missing nor the one written
C17_Witness ==
  /\ SyncObserved
  /\ \E u \in ClientIds :
        LET incoming == PublicWith(last.batch, u) IN
        /\ incoming # <<>> /\ StillStored(u)
        /\ incoming[1].version # 0
        /\ incoming[1].version # NowUnder(u).version
        /\ incoming[1].title # FoundUnder(u).title

\* C18: version monotonicity. The version stored under a uniqueId is never
\* lower than a version the store held under that uniqueId in an earlier
\* state, across syncs, purges, deletions by uniqueId and cleanups.
C18_VersionMonotonic ==
  observed.on =>
    \A i \in 1..Len(quizCollection) :
       quizCollection[i].version >= observed.version[quizCollection[i].uniqueId]

\* C19: a public quiz synced without a uniqueId is given one and stored: the
\* response holds exactly one quiz with its title, which has a uniqueId and
\* version 1.
C19_MissingUniqueIdAssigned ==
  SyncDone =>
    \A k \in 1..Len(last.batch) :
       LET item == last.batch[k]
           same == SelectSeq(last.served, LAMBDA q : q.title = item.title) IN
       (item.isPublic = "true" /\ item.uniqueId = 0)
         => /\ Len(same) = 1
            /\ same[1].uniqueId # 0
            /\ same[1].version = 1

----------------------------------------------------------------------------
(* The sync route on batches of one public quiz that carries a createdAt or    *)
(* leaves it out                                                               *)

CreatedAtItems ==
  { [uniqueId |-> u, title |-> c.title, questions |-> c.questions, isPublic |-> "true",
     version |-> 0, createdAt |-> t] :
    u \in ClientIds, c \in Contents, t \in 0..MaxClientTime }

NextCreatedAt ==
  \E a \in CreatedAtItems, now \in Times : SyncRoute(<<a>>, now)

SpecCreatedAt == SyncInit /\ [][NextCreatedAt]_vars

\* C33: createdAt is immutable in the shared store. A sync call leaves the
\* createdAt stored under a uniqueId as it was, also when the batch carries
\* another createdAt, or none, for that uniqueId.
C33_CreatedAtImmutable ==
  [][\A u \in ClientIds :
       LET i == FindByUniqueId(quizCollection, u)
           j == FindByUniqueId(quizCollection', u) IN
       (last'.route = "POST /api/quizzes/sync" /\ i # 0 /\ j # 0)
         => quizCollection'[j].createdAt = quizCollection[i].createdAt]_vars

----------------------------------------------------------------------------
(* One client sending the same batch to the sync route again and again *)

\* public quizzes as a client holds them, with or without version and createdAt
DatedItems ==
  { [uniqueId |-> u, title |-> c.title, questions |-> c.questions, isPublic |-> "true",
     version |-> v, createdAt |-> t] :
    u \in ClientIds, c \in Contents, v \in SyncVersions, t \in 0..MaxClientTime }

\* batches of one quiz, and of two quizzes under two uniqueIds
ResyncBatches ==
  {<<a>> : a \in DatedItems}
    \cup {<<p[1], p[2]>> :
            p \in {p \in DatedItems \X DatedItems : p[1].uniqueId # p[2].uniqueId}}

\* a sync item that lacks its title, or its questions
Untitled(quiz) ==
  [uniqueId |-> quiz.uniqueId, questions |-> quiz.questions, isPublic |-> quiz.isPublic,
   version |-> quiz.version, createdAt |-> quiz.createdAt]
Questionless(quiz) ==
  [uniqueId |-> quiz.uniqueId, title |-> quiz.title, isPublic |-> quiz.isPublic,
   version |-> quiz.version, createdAt |-> quiz.createdAt]

MalformedItems ==
  {Untitled(q) : q \in InsertQuizzes(ClientIds, {"true"})}
    \cup {Questionless(q) : q \in InsertQuizzes(ClientIds, {"true"})}

\* batches of a well-formed quiz and a malformed one, in either order
MixedBatches ==
  {<<a, b>> : a \in InsertQuizzes(ClientIds, {"true"}),
              b \in MalformedItems}
    \cup {<<b, a>> : a \in InsertQuizzes(ClientIds, {"true"}),
                     b \in MalformedItems}

ResyncInit ==
  /\ quizCollection = <<>>
  /\ quizCurrentId = 1
  /\ uuidCount = 0
  /\ last = NoRequest
  /\ observed = Observing
  /\ quizzes = <<>>
  /\ requestBody \in ResyncBatches \cup MixedBatches
  /\ clientUuidCount = 0
  /\ fetchCount = 0
  /\ DbInit /\ MemIdle /\ HashIdle

NextResync == \E now \in Times : SyncRoute(requestBody, now)

SpecResync == ResyncInit /\ [][NextResync]_vars

\* C20: re-submitting a batch is harmless. A sync of the batch the request
\* before it synced leaves the set of uniqueIds stored as it was and creates no
\* duplicate: no uniqueId of the batch is stored twice.
C20_ResyncHarmless ==
  observed.resync =>
    /\ UniqueIdsOf(quizCollection) = UniqueIdsOf(observed.before)
    /\ \A k \in 1..Len(last.batch) :
          CountUnder(quizCollection, last.batch[k].uniqueId) <= 1

\* C25: a sync batch of well-formed and malformed items does not fail as a
\* whole: the malformed items are dropped and every well-formed public item
\* that has a uniqueId is stored.
C25_MalformedItemsDropped ==
  (SyncDone /\ ~Parses(last.batch)) =>
    /\ last.status = 200
    /\ \A k \in 1..Len(last.batch) :
          (WellFormed(last.batch[k]) /\ last.batch[k].isPublic = "true"
             /\ last.batch[k].uniqueId # 0)
            => \E q \in Range(quizCollection) : q.uniqueId = last.batch[k].uniqueId

----------------------------------------------------------------------------
(* createContentHash and createQuizContentHash on a quiz and a reordering of it *)

\* Q3 has the question text of Q1 and another correct answer; Q4 differs from
\* Q3 in case, spaces and the order of its options only; Q5 has the question
\* text of Q1 and other options
Q3 == [question |-> <<"a">>, options |-> << <<"a">>, <<"b">> >>, correctAnswer |-> <<"b">>]
Q4 == [question |-> <<"A", " ">>, options |-> << <<"B">>, <<"a">> >>, correctAnswer |-> <<"b">>]
Q5 == [question |-> <<"a">>, options |-> << <<"b">>, <<"b">> >>, correctAnswer |-> <<"b">>]

HashQuestions == {Q1, Q2, Q3, Q4, Q5}

HashQuizzes ==
  UNION { { [title |-> <<"a">>, questions |-> qs] : qs \in [1..n -> HashQuestions] } :
          n \in 1..MaxHashQuestions }

\* the permutations of 1..n
Perms(n) == {f \in [1..n -> 1..n] : \A i, j \in 1..n : f[i] = f[j] => i = j}

\* the question with its options in every order
PermutedQuestion(q) ==
  { [q EXCEPT !.options = [k \in 1..Len(q.options) |-> q.options[f[k]]]] :
    f \in Perms(Len(q.options)) }

\* the quiz with its questions in every order, the options of each in every order
PermutedQuizzes(quiz) ==
  LET n == Len(quiz.questions)
      all == UNION {PermutedQuestion(quiz.questions[i]) : i \in 1..n}
  IN { [quiz EXCEPT !.questions = qs] :
       qs \in { qs \in [1..n -> all] :
                  \E f \in Perms(n) :
                    \A i \in 1..n : qs[i] \in PermutedQuestion(quiz.questions[f[i]]) } }

HashInit ==
  /\ hashQuiz \in HashQuizzes
  /\ hashPermuted \in PermutedQuizzes(hashQuiz)
  /\ hashes = NoHashes
  /\ ServerInit /\ ClientInit /\ DbInit /\ MemIdle

\* the server hashes the two quizzes
ServerHash ==
  /\ hashes.server = <<>>
  /\ hashes' = [hashes EXCEPT !.server =
                   <<createContentHash(hashQuiz), createContentHash(hashPermuted)>>]
  /\ UNCHANGED <<hashQuiz, hashPermuted>>
  /\ HashFrame

\* the client hashes the two quizzes
ClientHash ==
  /\ hashes.client = <<>>
  /\ hashes' = [hashes EXCEPT !.client =
                   <<createQuizContentHash(hashQuiz), createQuizContentHash(hashPermuted)>>]
  /\ UNCHANGED <<hashQuiz, hashPermuted>>
  /\ HashFrame

NextHash ==
  \/ ServerHash
  \/ ClientHash

SpecHash == HashInit /\ [][NextHash]_vars

\* C9: fingerprint order-independence. The content hash of a quiz equals the
\* content hash of every reordering of its questions and of their options,
\* quizzes with two questions of one normalized text included; for the
\* server's createContentHash and the client's createQuizContentHash.
C9_HashOrderIndependent ==
  /\ hashes.server # <<>> => hashes.server[1] = hashes.server[2]
  /\ hashes.client # <<>> => hashes.client[1] = hashes.client[2]

----------------------------------------------------------------------------
(* removeDuplicateQuizzes on a quiz without uniqueId and a respelled reordering *)
(* of it, alone in the store or next to a third quiz                            *)

toUpperCase(s) ==
  [i \in 1..Len(s) |->
     IF s[i] = "a" THEN "A" ELSE IF s[i] = "b" THEN "B" ELSE s[i]]

\* the quiz, and the quiz with its title, its question texts, its options and
\* its correct answers spelled the other way
RespelledQuizzes(quiz) ==
  { quiz,
    [title |-> <<" ">> \o toUpperCase(quiz.title) \o <<" ">>,
     questions |->
       [i \in 1..Len(quiz.questions) |->
          [question |-> <<" ">> \o toUpperCase(quiz.questions[i].question) \o <<" ">>,
           options |-> [k \in 1..Len(quiz.questions[i].options) |->
                          toUpperCase(quiz.questions[i].options[k]) \o <<" ">>],
           correctAnswer |-> toUpperCase(quiz.questions[i].correctAnswer)]]] }

\* the reorderings of the quiz, each in both spellings
VariantsOf(quiz) == UNION {RespelledQuizzes(p) : p \in PermutedQuizzes(quiz)}

\* a stored quiz without uniqueId
Unidentified(content, age) ==
  [uniqueId |-> 0, title |-> content.title, questions |-> content.questions,
   isPublic |-> "true", version |-> age.version, createdAt |-> age.createdAt]

\* what may be stored next to the pair: a quiz of their title with a uniqueId,
\* similar to some of the pairs, and a quiz of another title without one
Bystanders ==
  { [uniqueId |-> 1, title |-> <<"a">>, questions |-> <<Q1>>, isPublic |-> "true",
     version |-> 2, createdAt |-> 1],
    [uniqueId |-> 0, title |-> <<"b">>, questions |-> <<Q2>>, isPublic |-> "true",
     version |-> 2, createdAt |-> 1] }

\* seq with x put in as its k-th element
InsertAt(seq, k, x) == SubSeq(seq, 1, k - 1) \o <<x>> \o SubSeq(seq, k, Len(seq))

VariantInit ==
  /\ \E quiz \in HashQuizzes : \E v \in VariantsOf(quiz) : \E a \in Ages \X Ages :
       LET pair == <<Unidentified(quiz, a[1]), Unidentified(v, a[2])>> IN
       \E qs \in {pair} \cup {InsertAt(pair, k, b) : k \in 1..3, b \in Bystanders} :
          initialCollection = [i \in 1..Len(qs) |-> Stored(qs[i], i)]
  /\ quizCollection = initialCollection
  /\ quizCurrentId = Len(initialCollection) + 1
  /\ uuidCount = 0
  /\ last = NoRequest
  /\ memQuizCollection = initialCollection
  /\ memLast = NoCall
  /\ observed = NotObserving
  /\ ClientInit /\ DbInit /\ HashIdle

NextVariant ==
  \/ Cleanup
  \/ MemRemoveDuplicateQuizzes

SpecVariant == VariantInit /\ [][NextVariant]_vars

\* the two questions are equal up to case, surrounding whitespace and the order
\* of their options
SameQuestion(q1, q2) ==
  /\ Normalize(q1.question) = Normalize(q2.question)
  /\ Normalize(q1.correctAnswer) = Normalize(q2.correctAnswer)
  /\ Len(q1.options) = Len(q2.options)
  /\ \E g \in Perms(Len(q1.options)) :
        \A k \in 1..Len(q1.options) :
           Normalize(q1.options[k]) = Normalize(q2.options[g[k]])

\* the two quizzes are equal up to case, surrounding whitespace, question order
\* and option order
SameContent(quiz1, quiz2) ==
  /\ Normalize(quiz1.title) = Normalize(quiz2.title)
  /\ Len(quiz1.questions) = Len(quiz2.questions)
  /\ \E f \in Perms(Len(quiz1.questions)) :
        \A i \in 1..Len(quiz1.questions) :
           SameQuestion(quiz1.questions[i], quiz2.questions[f[i]])

\* two quizzes of the initial collection without uniqueId and of the same content
VariantPair(i, j) ==
  /\ i # j
  /\ initialCollection[i].uniqueId = 0 /\ initialCollection[j].uniqueId = 0
  /\ SameContent(initialCollection[i], initialCollection[j])

\* no other quiz of the initial collection has the title of the i-th
AloneUnderTitle(i, j) ==
  \A k \in 1..Len(initialCollection) :
     k \notin {i, j} =>
       Normalize(initialCollection[k].title) # Normalize(initialCollection[i].title)

\* of the i-th and the j-th quiz of the initial collection, the ones coll holds
Survivors(coll, i, j) ==
  {k \in {i, j} : HasId(coll, initialCollection[k].id)}

----------------------------------------------------------------------------
(* removeDuplicateQuizzes on two quizzes of one title, of up to                *)
(* MaxFuzzyQuestions questions each                                            *)

\* Q3 matches Q1 by its text and Q2 by its correct answer; Q1 and Q2 do not match
FuzzyQuestions == {Q1, Q2, Q3}

FuzzyContents ==
  UNION { { [title |-> <<"a">>, questions |-> qs] : qs \in [1..n -> FuzzyQuestions] } :
          n \in 1..MaxFuzzyQuestions }

\* the uniqueIds of the two quizzes: none, one, two different ones, a common one
FuzzyUniqueIds == {<<0, 0>>, <<0, 1>>, <<1, 0>>, <<1, 2>>, <<1, 1>>}

\* a quiz of another title
OtherTitled ==
  [uniqueId |-> 0, title |-> <<"b">>, questions |-> <<Q2>>, isPublic |-> "true",
   version |-> 2, createdAt |-> 1]

FuzzyInit ==
  /\ \E c1, c2 \in FuzzyContents : \E u \in FuzzyUniqueIds :
       LET quiz1 == [Unidentified(c1, [version |-> 1, createdAt |-> 1]) EXCEPT !.uniqueId = u[1]]
           quiz2 == [Unidentified(c2, [version |-> 1, createdAt |-> 2]) EXCEPT !.uniqueId = u[2]]
       IN \E qs \in {<<quiz1, quiz2>>, <<quiz1, OtherTitled, quiz2>>} :
             initialCollection = [i \in 1..Len(qs) |-> Stored(qs[i], i)]
  /\ quizCollection = initialCollection
  /\ quizCurrentId = Len(initialCollection) + 1
  /\ uuidCount = 0
  /\ last = NoRequest
  /\ memQuizCollection = initialCollection
  /\ memLast = NoCall
  /\ observed = NotObserving
  /\ ClientInit /\ DbInit /\ HashIdle

NextFuzzy ==
  \/ Cleanup
  \/ MemRemoveDuplicateQuizzes

SpecFuzzy == FuzzyInit /\ [][NextFuzzy]_vars

\* the i-th quiz of the initial collection comes before the j-th, the two have
\* one title, no common uniqueId and different fingerprints, and no third quiz
\* has their title
FuzzyPair(i, j) ==
  /\ i < j
  /\ Normalize(initialCollection[i].title) = Normalize(initialCollection[j].title)
  /\ ~(initialCollection[i].uniqueId # 0
         /\ initialCollection[i].uniqueId = initialCollection[j].uniqueId)
  /\ createContentHash(initialCollection[i]) # createContentHash(initialCollection[j])
  /\ AloneUnderTitle(i, j)

\* the question counts of the two differ by more than 1
FarInLength(quiz1, quiz2) == Abs(Len(quiz1.questions) - Len(quiz2.questions)) > 1

\* fewer than 0.8 * min(lenA, lenB) questions of the first have a question of the
\* second with equal normalized text or equal normalized correct answer
BelowThreshold(quiz1, quiz2) ==
  10 * matchCount(quiz1, quiz2) < 8 * Min(Len(quiz1.questions), Len(quiz2.questions))

C28_WitnessFar ==
  /\ CleanupDone /\ MemCleanupDone
  /\ \E i, j \in 1..Len(initialCollection) :
        /\ FuzzyPair(i, j)
        /\ FarInLength(initialCollection[i], initialCollection[j])
        /\ matchCount(initialCollection[i], initialCollection[j])
             = Len(initialCollection[i].questions)

----------------------------------------------------------------------------
(* A sync call aborted between two of its writes, and the same batch synced    *)
(* again to completion                                                         *)

\* the storage state a sync call leaves when it is aborted after k iterations
\* of its two loops: those of the upsert loop first, then those of the purge loop
SyncAbortedAt(st, quizzesToSync, now, k) ==
  LET n == Len(publicQuizzesToSync(quizzesToSync)) IN
  IF k <= n THEN UpsertLoop(st, SubSeq(publicQuizzesToSync(quizzesToSync), 1, k), now)
  ELSE PurgeLoop(SyncUpserted(st, quizzesToSync, now), SubSeq(quizzesToSync, 1, k - n))

\* how many iterations the two loops of a sync of the batch make
SyncIterations(quizzesToSync) ==
  Len(publicQuizzesToSync(quizzesToSync)) + Len(quizzesToSync)

\* batches of one item and of two
RetryBatches ==
  {<<a>> : a \in SyncItems} \cup {<<p[1], p[2]>> : p \in SyncItems \X SyncItems}

\* public quizzes of the store, less their id
RetryQuizzes ==
  { [uniqueId |-> u, title |-> c.title, questions |-> c.questions, isPublic |-> "true",
     version |-> a.version, createdAt |-> a.createdAt] :
    u \in ClientIds, c \in Contents, a \in Ages }

\* the store starts with up to MaxRetryLen quizzes
RetryInit ==
  /\ \E n \in 0..MaxRetryLen : \E qs \in [1..n -> RetryQuizzes] :
        initialCollection = [i \in 1..n |-> Stored(qs[i], i)]
  /\ quizCollection = initialCollection
  /\ quizCurrentId = Len(initialCollection) + 1
  /\ uuidCount = 0
  /\ last = NoRequest
  /\ memQuizCollection = <<>>
  /\ memLast = NoCall
  /\ observed = Observing
  /\ ClientInit /\ DbInit /\ HashIdle

\* POST /api/quizzes/sync, aborted after k iterations: no response is sent
SyncAbort(batch, now, k) ==
  LET st == SyncAbortedAt(Storage, Preprocess(batch, now), now, k) IN
  /\ last = NoRequest
  /\ k <= SyncIterations(batch)
  /\ WithinBounds(st)
  /\ SetStorage(st)
  /\ last' = [NoRequest EXCEPT !.route = "POST /api/quizzes/sync", !.batch = batch]
  /\ ServerFrame

\* the aborted batch is sent again and the call runs to its end
SyncRetry(now) ==
  /\ last.route = "POST /api/quizzes/sync"
  /\ last.status = 0
  /\ SyncRoute(last.batch, now)

NextRetry ==
  \/ \E batch \in RetryBatches, now \in Times, k \in 0..(2 * MaxBatchLen) :
        SyncAbort(batch, now, k)
  \/ \E now \in Times : SyncRetry(now)

SpecRetry == RetryInit /\ [][NextRetry]_vars

\* the quizzes of the collection less their id and their version
ContentsOf(coll) ==
  { [uniqueId |-> coll[i].uniqueId, title |-> coll[i].title,
     questions |-> coll[i].questions, isPublic |-> coll[i].isPublic,
     createdAt |-> coll[i].createdAt] : i \in 1..Len(coll) }

\* the storage before the aborted call
InitialStorage ==
  [quizCollection |-> initialCollection, quizCurrentId |-> Len(initialCollection) + 1,
   uuidCount |-> 0]

\* the aborted batch has been synced again, to completion
Retried == SyncDone /\ last.status = 200 /\ observed.resync

\* C30: a retried sync self-heals. After a sync of a batch was aborted between
\* two of its writes and the batch was synced again to completion, the store
\* holds the uniqueIds, with the contents (all fields other than the version),
\* that one uninterrupted sync of the batch leaves from the initial store.
C30_RetrySelfHeals ==
  Retried =>
    \E now \in Times :
       ContentsOf(quizCollection)
         = ContentsOf(syncQuizzes(InitialStorage, Preprocess(last.batch, now), now).quizCollection)

====
